---- MODULE Spec2Model ----
(***************************************************************************)
(* File-name extraction, clustering and cross-document merge of the        *)
(* Scrapper-Tool repository (src/lib/fileNameExtractor.ts and              *)
(* src/app/api/analyze-batch/route.ts).                                    *)
(*                                                                         *)
(* A JavaScript string is a sequence of one-character strings, so that     *)
(* the regular expressions, split, trim and toLowerCase of the source are  *)
(* computed character by character.                                        *)
(***************************************************************************)
EXTENDS Integers, Sequences, FiniteSets, TLC

VARIABLES
    route,              \* the entry point exercised: "analyze", "group" or "batch"
    rawText,            \* analyze: the raw text of the document
    typed,              \* analyze: how many pieces of text have been written
    extracted,          \* the ExtractedFileName list (tokenizer output, clusterer input)
    analysis,           \* analyze: the ExtractionResult of analyzeDocument(rawText)
    clustered,          \* group: the PatternGroup list of groupByPattern(extracted)
    successfulAnalyses, \* batch: the per-document results, in submission order
    combinedAnalysis,   \* batch: mergeAnalysisResults(successfulAnalyses)
    nestedAnalysis,     \* batch: the first result merged with the merge of the others
    computed,           \* which of the results above have been computed
    rerun,              \* analyze: the result of a second analyzeDocument(rawText)
    argKind,            \* sanitize: "name" for sanitizeFileName, "path" for sanitizeFilePath
    arg,                \* sanitize: the string given to the function
    argPieces,          \* sanitize: how many pieces arg is made of
    sanitizedName,      \* sanitize: what sanitizeFileName(arg) returned
    pathResult,         \* sanitize: what sanitizeFilePath(arg) returned
    returned,           \* sanitize: whether the function has returned
    endpoint,           \* request: "analyze" or "analyze-batch"
    useAI,              \* request: the form field useAI is 'true'
    aiAvailable,        \* request: isAIAvailable()
    files,              \* request: the files of the form, in submission order
    pos,                \* request: how many files the loop of the batch handler has processed
    fileResults,        \* request: results, the FileResult list of the batch handler
    phase,              \* request: "building", "processing" or "responded"
    response,           \* request: the response of the handler
    mergeCalls,         \* request: how many times mergeAnalysisResults was called
    now,                \* rate limit: Date.now(), in milliseconds
    rateLimitStore,     \* rate limit: the record of each key
    sent,               \* rate limit: how many requests were sent
    admittedAI,         \* rate limit: per client, the requests with useAI that /api/analyze
                        \* admitted in the client's current window of one minute
    lastStatus,         \* rate limit: the status of the last response
    nameGiven,          \* pattern: the file name given to identifyPattern
    namePieces,         \* pattern: how many pieces nameGiven is made of
    patternFound,       \* pattern: what identifyPattern(nameGiven) returned, <<>> before
    lastCall,           \* limiter: the last call of checkRateLimit and what it returned
    windowCalls,        \* limiter: per key of the store, the calls made since its record
                        \* was created
    pdfCall,            \* parsePDF: the arguments, the locals and the result of a call
    cacheNow,           \* cache: Date.now(), in milliseconds
    cacheStore,         \* cache: the entry of each key of the store of the Cache
    fellBack,           \* cache: the buffers analysed by regex after analyzeWithAI
                        \* gave nothing
    lastRequest         \* cache: the last request to /api/analyze and its response

\* the variables of the extraction engine
engineVars == <<route, rawText, typed, extracted, analysis, clustered,
                successfulAnalyses, combinedAnalysis, nestedAnalysis, computed>>

\* the variables of the calls of the sanitizers
sanitizeVars == <<argKind, arg, argPieces, sanitizedName, pathResult, returned>>

\* the variables of a request to a POST handler, successfulAnalyses and
\* combinedAnalysis apart
requestVars == <<endpoint, useAI, aiAvailable, files, pos, fileResults, phase,
                 response, mergeCalls>>

\* the variables of the rate limiter
rateVars == <<now, rateLimitStore, sent, admittedAI, lastStatus>>

\* the variables of the calls of identifyPattern
patternVars == <<nameGiven, namePieces, patternFound>>

\* what is recorded of the calls of checkRateLimit
limiterVars == <<lastCall, windowCalls>>

\* the variables of the functions that are called on their own
\* the variables of the requests to the caching handler of /api/analyze
cacheVars == <<cacheNow, cacheStore, fellBack, lastRequest>>

otherVars == <<patternVars, limiterVars, pdfCall, cacheVars>>

\* the variables that the actions of the engine leave alone
outsideEngine == <<rerun, sanitizeVars, requestVars, rateVars, otherVars>>

vars == <<engineVars, outsideEngine>>

(***************************************************************************)
(* Characters and character classes                                        *)
(***************************************************************************)
LowerLetters == <<"a","b","c","d","e","f","g","h","i","j","k","l","m",
                  "n","o","p","q","r","s","t","u","v","w","x","y","z">>

UpperLetters == <<"A","B","C","D","E","F","G","H","I","J","K","L","M",
                  "N","O","P","Q","R","S","T","U","V","W","X","Y","Z">>

Range(f) == {f[i] : i \in DOMAIN f}

LowerSet == Range(LowerLetters)

UpperSet == Range(UpperLetters)

Letters == LowerSet \cup UpperSet

Digits == {"0","1","2","3","4","5","6","7","8","9"}

\* \s of a JavaScript regular expression (the ASCII part)
WhiteSpace == {" ", "\t", "\n", "\r", "\f"}

Seps == {"-", "_"}

Max(S) == CHOOSE x \in S : \A y \in S : y <= x

Min(S) == CHOOSE x \in S : \A y \in S : x <= y

\* s.substring(a-1, b) of the source, with 1-based inclusive positions
Slice(s, a, b) == SubSeq(s, a, b)

ToLowerChar(c) ==
    IF c \in UpperSet
    THEN LowerLetters[CHOOSE i \in 1..26 : UpperLetters[i] = c]
    ELSE c

toLowerCase(s) == [i \in 1..Len(s) |-> ToLowerChar(s[i])]

\* String.prototype.trim
trim(s) ==
    LET keep == {i \in 1..Len(s) : s[i] \notin WhiteSpace}
    IN  IF keep = {} THEN <<>> ELSE Slice(s, Min(keep), Max(keep))

\* s.split(ch): the pieces between the occurrences of ch, at least one piece
RECURSIVE split(_, _)
split(s, ch) ==
    LET at == {i \in 1..Len(s) : s[i] = ch}
    IN  IF at = {} THEN <<s>>
        ELSE <<Slice(s, 1, Min(at) - 1)>> \o split(Slice(s, Min(at) + 1, Len(s)), ch)

\* parts.join(ch)
RECURSIVE join(_, _)
join(parts, ch) ==
    IF Len(parts) = 0 THEN <<>>
    ELSE IF Len(parts) = 1 THEN parts[1]
    ELSE parts[1] \o <<ch>> \o join(Tail(parts), ch)

(***************************************************************************)
(* buildFileNameRegex                                                      *)
(***************************************************************************)
FILE_EXTENSIONS ==
    << <<"p","d","f">>, <<"d","o","c","x">>, <<"d","o","c">>,
       <<"x","l","s","x">>, <<"x","l","s">>, <<"c","s","v">>, <<"t","x","t">>,
       <<"j","p","g">>, <<"j","p","e","g">>, <<"p","n","g">>, <<"g","i","f">>,
       <<"b","m","p">>, <<"t","i","f","f">>, <<"t","i","f">>,
       <<"p","p","t","x">>, <<"p","p","t">>, <<"r","t","f">>, <<"x","m","l">>,
       <<"j","s","o","n">>, <<"h","t","m","l">>, <<"h","t","m">>,
       <<"z","i","p">>, <<"r","a","r">>, <<"7","z">>, <<"t","a","r">>, <<"g","z">>,
       <<"m","p","3">>, <<"m","p","4">>, <<"w","a","v">>, <<"a","v","i">>,
       <<"m","o","v">>, <<"m","k","v">>,
       <<"e","m","l">>, <<"m","s","g">>, <<"p","s","t">> >>

\* [\s"'(<\[{,;:] : the delimiter that may precede a file name
LeadDelim == WhiteSpace \cup {"\"", "'", "(", "<", "[", "{", ",", ";", ":"}

\* [\s"'>)\]},;:] : the delimiter that may follow a file name
TrailDelim == WhiteSpace \cup {"\"", "'", ">", ")", "]", "}", ",", ";", ":"}

\* [A-Za-z0-9_] : first character of the body
FirstClass == Letters \cup Digits \cup {"_"}

\* [A-Za-z0-9_\-\.\s()\[\]] : the other characters of the body
BodyClass == FirstClass \cup {"-", ".", "(", ")", "[", "]"} \cup WhiteSpace

\* {0,200}
MaxBody == 200

\* the lookahead (?=[\s"'>)\]},;:]|$) after position e
Lookahead(s, e) == e = Len(s) \/ s[e + 1] \in TrailDelim

\* the alternatives of (?:pdf|docx|...) that match after a dot at position d
\* and are followed by the lookahead; the flag i ignores case
ExtMatches(s, d) ==
    IF d > Len(s) \/ s[d] # "." THEN {}
    ELSE {x \in DOMAIN FILE_EXTENSIONS :
            /\ d + Len(FILE_EXTENSIONS[x]) <= Len(s)
            /\ Lookahead(s, d + Len(FILE_EXTENSIONS[x]))
            /\ \A k \in 1..Len(FILE_EXTENSIONS[x]) :
                  ToLowerChar(s[d + k]) = FILE_EXTENSIONS[x][k]}

\* the end of the match for a dot at d: the first alternative that matches
ExtEnd(s, d) == d + Len(FILE_EXTENSIONS[Min(ExtMatches(s, d))])

\* the positions of the dot for which the capture group matches from b; the
\* body between b and the dot has at most MaxBody characters of BodyClass
BodyDots(s, b) ==
    IF b > Len(s) \/ s[b] \notin FirstClass THEN {}
    ELSE {d \in (b + 1)..Len(s) :
            /\ s[d] = "."
            /\ d - 1 - b <= MaxBody
            /\ ExtMatches(s, d) # {}
            /\ \A i \in (b + 1)..(d - 1) : s[i] \in BodyClass}

NoMatch == [b |-> 0, e |-> 0]

\* the match whose capture group starts at b: the body is greedy, so the dot
\* is the last one that works; b..e is the capture group
matchAt(s, b) ==
    LET dots == BodyDots(s, b)
    IN  IF dots = {} THEN NoMatch ELSE [b |-> b, e |-> ExtEnd(s, Max(dots))]

\* the capture group may start at b for a search from position from: at the
\* start of the string (^), or right after a delimiter
StartOK(s, from, b) == b = 1 \/ (b > from /\ s[b - 1] \in LeadDelim)

\* the leftmost match whose capture group starts at b or later
RECURSIVE execFrom(_, _, _)
execFrom(s, from, b) ==
    IF b > Len(s) THEN NoMatch
    ELSE LET m == IF StartOK(s, from, b) THEN matchAt(s, b) ELSE NoMatch
         IN  IF m # NoMatch THEN m ELSE execFrom(s, from, b + 1)

\* regex.exec with lastIndex = from - 1
exec(s, from) == execFrom(s, from, from)

\* the capture groups of the successive exec calls, lastIndex moving to the
\* end of each match
RECURSIVE execAll(_, _)
execAll(s, from) ==
    LET m == exec(s, from)
    IN  IF m = NoMatch THEN <<>>
        ELSE <<Slice(s, m.b, m.e)>> \o execAll(s, m.e + 1)

(***************************************************************************)
(* extractFileNames and findDuplicates                                     *)
(***************************************************************************)
\* fileName.replace(/^[\s"'(<\[{,;:]+/, '')
stripLeading(s) ==
    LET keep == {i \in 1..Len(s) : s[i] \notin LeadDelim}
    IN  IF keep = {} THEN <<>> ELSE Slice(s, Min(keep), Len(s))

\* cleanName.split('.').pop()?.toLowerCase() || ''
extensionOf(name) ==
    LET parts == split(name, ".")
    IN  toLowerCase(parts[Len(parts)])


\* extractStep with seen holding the names as written, not lower-cased
extractStep_caseSensitive(st, m, lineNum) ==
    LET cleanName == trim(stripLeading(trim(m)))
    IN  IF Len(trim(m)) > 2 /\ Len(cleanName) > 2
        THEN [fileNames |->
                 IF cleanName \notin st.seen
                 THEN Append(st.fileNames,
                             [name |-> cleanName,
                              extension |-> extensionOf(cleanName),
                              line |-> lineNum + 1])
                 ELSE st.fileNames,
              seen |-> st.seen \cup {cleanName}]
        ELSE st

\* the body of the while loop for one match m found on line lineNum (0-based);
\* st is the pair of fileNames and seen
extractStep(st, m, lineNum) ==
    LET fileName  == trim(m)
        cleanName == trim(stripLeading(fileName))
        lower     == toLowerCase(cleanName)
    IN  IF Len(fileName) > 2 /\ Len(cleanName) > 2
        THEN [fileNames |->
                 IF lower \notin st.seen
                 THEN Append(st.fileNames,
                             [name |-> cleanName,
                              extension |-> extensionOf(cleanName),
                              line |-> lineNum + 1])
                 ELSE st.fileNames,
              seen |-> st.seen \cup {lower}]
        ELSE st

RECURSIVE extractMatches(_, _, _)
extractMatches(st, ms, lineNum) ==
    IF ms = <<>> THEN st
    ELSE extractMatches(extractStep(st, Head(ms), lineNum), Tail(ms), lineNum)

RECURSIVE extractLines(_, _, _)
extractLines(st, lines, lineNum) ==
    IF lineNum >= Len(lines) THEN st
    ELSE extractLines(extractMatches(st, execAll(lines[lineNum + 1], 1), lineNum),
                      lines, lineNum + 1)

extractFileNames(t) ==
    extractLines([fileNames |-> <<>>, seen |-> {}], split(t, "\n"), 0).fileNames

\* counts is the Map of findDuplicates: keys in insertion order, with counts
countStep(counts, m) ==
    LET fileName == toLowerCase(trim(m))
    IN  IF Len(fileName) > 2
        THEN IF \E i \in 1..Len(counts) : counts[i].name = fileName
             THEN [i \in 1..Len(counts) |->
                     IF counts[i].name = fileName
                     THEN [name |-> fileName, count |-> counts[i].count + 1]
                     ELSE counts[i]]
             ELSE Append(counts, [name |-> fileName, count |-> 1])
        ELSE counts

RECURSIVE countMatches(_, _)
countMatches(counts, ms) ==
    IF ms = <<>> THEN counts
    ELSE countMatches(countStep(counts, Head(ms)), Tail(ms))

RECURSIVE namesOver(_)
namesOver(counts) ==
    IF counts = <<>> THEN <<>>
    ELSE (IF Head(counts).count > 1 THEN <<Head(counts).name>> ELSE <<>>)
         \o namesOver(Tail(counts))

\* the whole text is scanned as one string
findDuplicates(t) == namesOver(countMatches(<<>>, execAll(t, 1)))

(***************************************************************************)
(* identifyPattern: a chain of global regular-expression replacements      *)
(***************************************************************************)
IsDigitAt(s, i) == i >= 1 /\ i <= Len(s) /\ s[i] \in Digits

IsSepAt(s, i) == i >= 1 /\ i <= Len(s) /\ s[i] \in Seps

\* all of s[i..i+n-1] are digits
DigitsAt(s, i, n) == \A k \in i..(i + n - 1) : IsDigitAt(s, k)

\* length of the run of digits that starts at i
RECURSIVE digitRun(_, _)
digitRun(s, i) == IF IsDigitAt(s, i) THEN 1 + digitRun(s, i + 1) ELSE 0

\* length of the run of letters that starts at i
RECURSIVE letterRun(_, _)
letterRun(s, i) ==
    IF i <= Len(s) /\ s[i] \in Letters THEN 1 + letterRun(s, i + 1) ELSE 0

\* length of a match of \d{a}[-_]?\d{b}[-_]?\d{c} at i, or 0; an optional
\* separator that is present is always taken, a digit cannot follow otherwise
dateLen(s, i, a, b, c) ==
    IF ~DigitsAt(s, i, a) THEN 0
    ELSE LET j == IF IsSepAt(s, i + a) THEN i + a + 1 ELSE i + a
         IN  IF ~DigitsAt(s, j, b) THEN 0
             ELSE LET k == IF IsSepAt(s, j + b) THEN j + b + 1 ELSE j + b
                  IN  IF DigitsAt(s, k, c) THEN k + c - i ELSE 0

StartsWith(s, i, w) == i + Len(w) - 1 <= Len(s) /\ Slice(s, i, i + Len(w) - 1) = w

DATE == <<"D","A","T","E">>

YYYY == <<"Y","Y","Y","Y">>

XXX == <<"X","X","X">>

XX == <<"X","X">>

X == <<"X">>

VAR == <<"V","A","R">>

\* the alternation (YYYY|DATE|XXX|XX|X), in its order
Placeholders == <<YYYY, DATE, XXX, XX, X>>

\* length of the placeholder matched at i, or 0
placeholderLen(s, i) ==
    LET hits == {x \in DOMAIN Placeholders : StartsWith(s, i, Placeholders[x])}
    IN  IF hits = {} THEN 0 ELSE Len(Placeholders[Min(hits)])

\* the eight replacements of identifyPattern, in their order
Rules == 1..8

\* length of the match of rule r at position i of s, or 0 if it does not match
matchLen(r, s, i) ==
    CASE r = 1 -> dateLen(s, i, 4, 2, 2)
      [] r = 2 -> dateLen(s, i, 2, 2, 4)
      [] r = 3 -> IF /\ DigitsAt(s, i, 4)
                     /\ Slice(s, i, i + 1) \in {<<"1","9">>, <<"2","0">>}
                  THEN 4 ELSE 0
      [] r = 4 -> IF digitRun(s, i) >= 3 THEN digitRun(s, i) ELSE 0
      [] r = 5 -> IF DigitsAt(s, i, 2) THEN 2 ELSE 0
      [] r = 6 -> IF IsDigitAt(s, i) THEN 1 ELSE 0
      [] r = 7 -> IF /\ IsSepAt(s, i)
                     /\ i + 1 <= Len(s) /\ s[i + 1] \in Letters
                     /\ \/ i + 1 = Len(s)
                        \/ s[i + 2] \in Seps \cup {"."}
                  THEN 2 ELSE 0
      [] r = 8 -> LET n == letterRun(s, i + 1)
                  IN  IF /\ IsSepAt(s, i)
                         /\ n > 0
                         /\ IsSepAt(s, i + 1 + n)
                         /\ placeholderLen(s, i + 2 + n) > 0
                      THEN 2 + n + placeholderLen(s, i + 2 + n) ELSE 0

\* what rule r puts in place of its match s[i..i+n-1]
replacement(r, s, i, n) ==
    CASE r \in {1, 2} -> DATE
      [] r = 3 -> YYYY
      [] r = 4 -> XXX
      [] r = 5 -> XX
      [] r = 6 -> X
      [] r = 7 -> <<s[i]>> \o X
      [] r = 8 -> LET k == letterRun(s, i + 1)
                  IN  <<s[i]>> \o VAR \o Slice(s, i + 1 + k, i + n - 1)

\* s.replace(/.../g, ...) for rule r, scanning from position i
RECURSIVE replaceFrom(_, _, _)
replaceFrom(r, s, i) ==
    IF i > Len(s) THEN <<>>
    ELSE LET n == matchLen(r, s, i)
         IN  IF n > 0
             THEN replacement(r, s, i, n) \o replaceFrom(r, s, i + n)
             ELSE <<s[i]>> \o replaceFrom(r, s, i + 1)

RECURSIVE applyRules(_, _)
applyRules(r, s) == IF r > 8 THEN s ELSE applyRules(r + 1, replaceFrom(r, s, 1))

\* the parts before the last one, joined again with dots
baseNameOf(fileName) ==
    LET parts == split(fileName, ".")
    IN  join(SubSeq(parts, 1, Len(parts) - 1), ".")

identifyPattern(fileName) ==
    LET parts == split(fileName, ".")
    IN  applyRules(1, baseNameOf(fileName)) \o <<".">> \o parts[Len(parts)]

(***************************************************************************)
(* extractPrefix and patternSimilarity                                     *)
(***************************************************************************)
\* length of the run of [A-Z0-9] that starts at i
RECURSIVE upperDigitRun(_, _)
upperDigitRun(s, i) ==
    IF i <= Len(s) /\ s[i] \in UpperSet \cup Digits
    THEN 1 + upperDigitRun(s, i + 1) ELSE 0

\* /^([A-Za-z]+[-_]?|[A-Z0-9]+[-_])/, else the first four characters
extractPrefix(fileName) ==
    LET baseName == baseNameOf(fileName)
        n == letterRun(baseName, 1)
        u == upperDigitRun(baseName, 1)
    IN  IF n > 0
        THEN Slice(baseName, 1, IF IsSepAt(baseName, n + 1) THEN n + 1 ELSE n)
        ELSE IF u > 0 /\ IsSepAt(baseName, u + 1)
        THEN Slice(baseName, 1, u + 1)
        ELSE Slice(baseName, 1, IF Len(baseName) < 4 THEN Len(baseName) ELSE 4)

\* the number of leading positions at which shorter and longer agree
RECURSIVE matchLength(_, _, _)
matchLength(shorter, longer, i) ==
    IF i <= Len(shorter) /\ shorter[i] = longer[i]
    THEN 1 + matchLength(shorter, longer, i + 1) ELSE 0

\* the similarity as the fraction num / den
patternSimilarity(p1, p2) ==
    LET longer  == IF Len(p1) > Len(p2) THEN p1 ELSE p2
        shorter == IF Len(p1) > Len(p2) THEN p2 ELSE p1
    IN  IF p1 = p2 THEN [num |-> 1, den |-> 1]
        ELSE IF Len(longer) = 0 THEN [num |-> 1, den |-> 1]
        ELSE [num |-> matchLength(shorter, longer, 1), den |-> Len(longer)]

\* patternSimilarity(...) > 0.85
verySimilar(p1, p2) ==
    LET sim == patternSimilarity(p1, p2)
    IN  sim.num * 100 > 85 * sim.den

(***************************************************************************)
(* groupByPattern and analyzeDocument                                      *)
(***************************************************************************)
Miscellaneous == <<"M","i","s","c","e","l","l","a","n","e","o","u","s">>

\* matchedKey without the break: the last key that qualifies
matchedKey_last(patternMap, prefix, pattern) ==
    LET hits == {i \in 1..Len(patternMap) :
                    LET parts == split(patternMap[i].key, "|")
                    IN  \/ parts[1] = prefix
                        \/ verySimilar(pattern, parts[2])}
    IN  IF hits = {} THEN 0 ELSE Max(hits)

\* the first key of patternMap, in insertion order, whose prefix equals prefix
\* or whose pattern is very similar to pattern; 0 if there is none
matchedKey(patternMap, prefix, pattern) ==
    LET hits == {i \in 1..Len(patternMap) :
                    LET parts == split(patternMap[i].key, "|")
                    IN  \/ parts[1] = prefix
                        \/ verySimilar(pattern, parts[2])}
    IN  IF hits = {} THEN 0 ELSE Min(hits)


\* groupStep with patternMap.set(matchedKey, [file]) in place of the push
groupStep_overwrite(patternMap, file) ==
    LET pattern  == identifyPattern(file.name)
        prefix   == extractPrefix(file.name)
        groupKey == prefix \o <<"|">> \o pattern
        m        == matchedKey(patternMap, prefix, pattern)
    IN  IF m # 0
        THEN [patternMap EXCEPT ![m].files = <<file>>]
        ELSE Append(patternMap, [key |-> groupKey, files |-> <<file>>])

\* the body of the first loop of groupByPattern for one file
groupStep(patternMap, file) ==
    LET pattern  == identifyPattern(file.name)
        prefix   == extractPrefix(file.name)
        groupKey == prefix \o <<"|">> \o pattern
        m        == matchedKey(patternMap, prefix, pattern)
    IN  IF m # 0
        THEN [patternMap EXCEPT ![m].files = Append(@, file)]
        ELSE IF \E i \in 1..Len(patternMap) : patternMap[i].key = groupKey
        THEN [i \in 1..Len(patternMap) |->
                IF patternMap[i].key = groupKey
                THEN [key |-> groupKey, files |-> <<file>>]
                ELSE patternMap[i]]
        ELSE Append(patternMap, [key |-> groupKey, files |-> <<file>>])

RECURSIVE buildPatternMap(_, _)
buildPatternMap(patternMap, fileNames) ==
    IF fileNames = <<>> THEN patternMap
    ELSE buildPatternMap(groupStep(patternMap, Head(fileNames)), Tail(fileNames))

\* key.split('|')[1] || key
displayPattern(key) ==
    LET parts == split(key, "|")
    IN  IF Len(parts) >= 2 /\ parts[2] # <<>> THEN parts[2] ELSE key

\* insertByCount for a sort that is not stable: g goes before the groups of
\* its own count
insertByCount_unstable(sorted, g) ==
    LET before == {i \in 1..Len(sorted) : sorted[i].count > g.count}
        k == IF before = {} THEN 0 ELSE Max(before)
    IN  SubSeq(sorted, 1, k) \o <<g>> \o SubSeq(sorted, k + 1, Len(sorted))

\* g put into the list sorted by descending count, after the groups that
\* are not smaller (Array.prototype.sort is stable)
insertByCount(sorted, g) ==
    LET before == {i \in 1..Len(sorted) : sorted[i].count >= g.count}
        k == IF before = {} THEN 0 ELSE Max(before)
    IN  SubSeq(sorted, 1, k) \o <<g>> \o SubSeq(sorted, k + 1, Len(sorted))

\* groups.sort((a, b) => b.count - a.count)
RECURSIVE sortByCount(_, _)
sortByCount(sorted, groups) ==
    IF groups = <<>> THEN sorted
    ELSE sortByCount(insertByCount(sorted, Head(groups)), Tail(groups))

\* the groups of the map, before sorting
mapToGroups(patternMap) ==
    [i \in 1..Len(patternMap) |->
        [pattern |-> displayPattern(patternMap[i].key),
         files   |-> patternMap[i].files,
         count   |-> Len(patternMap[i].files)]]

RECURSIVE miscFilesOf(_)
miscFilesOf(groups) ==
    IF groups = <<>> THEN <<>>
    ELSE (IF Head(groups).count = 1 THEN Head(groups).files ELSE <<>>)
         \o miscFilesOf(Tail(groups))


\* regularGroupsOf that also keeps the single-file groups
regularGroupsOf_keepAll(groups) == groups

RECURSIVE regularGroupsOf(_)
regularGroupsOf(groups) ==
    IF groups = <<>> THEN <<>>
    ELSE (IF Head(groups).count = 1 THEN <<>> ELSE <<Head(groups)>>)
         \o regularGroupsOf(Tail(groups))


\* demote with miscFiles.length > 1 as the test
demote_needsTwo(groups) ==
    LET miscFiles == miscFilesOf(groups)
    IN  IF Len(miscFiles) > 1
        THEN Append(regularGroupsOf(groups),
                    [pattern |-> Miscellaneous,
                     files   |-> miscFiles,
                     count   |-> Len(miscFiles)])
        ELSE regularGroupsOf(groups)

\* demote without the test of miscFiles.length
demote_always(groups) ==
    Append(regularGroupsOf(groups),
           [pattern |-> Miscellaneous,
            files   |-> miscFilesOf(groups),
            count   |-> Len(miscFilesOf(groups))])

\* single-file groups are moved to "Miscellaneous", which comes last
demote(groups) ==
    LET miscFiles == miscFilesOf(groups)
    IN  IF Len(miscFiles) > 0
        THEN Append(regularGroupsOf(groups),
                    [pattern |-> Miscellaneous,
                     files   |-> miscFiles,
                     count   |-> Len(miscFiles)])
        ELSE regularGroupsOf(groups)

\* the clusters before demotion, sorted
clustersOf(fileNames) ==
    sortByCount(<<>>, mapToGroups(buildPatternMap(<<>>, fileNames)))

groupByPattern(fileNames) == demote(clustersOf(fileNames))


\* extractionResult with totalFound counting the repeated names as well
extractionResult_countsRepeats(fileNames, duplicates, patterns) ==
    [totalFound |-> Len(fileNames) + Len(duplicates),
     patterns   |-> patterns,
     duplicates |-> duplicates]

\* the object that analyzeDocument returns, made of its three locals
extractionResult(fileNames, duplicates, patterns) ==
    [totalFound |-> Len(fileNames),
     patterns   |-> patterns,
     duplicates |-> duplicates]

analyzeDocument(t) ==
    LET fileNames == extractFileNames(t)
    IN  extractionResult(fileNames, findDuplicates(t), groupByPattern(fileNames))

\* list.includes(x) for an array of strings
arrayIncludes(list, x) == \E i \in 1..Len(list) : list[i] = x

\* the Is Duplicate column of a file in exportToCSV
csvIsDuplicate(result, file) ==
    IF arrayIncludes(result.duplicates, toLowerCase(file.name)) THEN "Yes" ELSE "No"

\* the Is Duplicate column of a file in the sheet All Files of exportToExcel
excelIsDuplicate(result, file) ==
    IF arrayIncludes(result.duplicates, file.name) THEN "Yes" ELSE "No"

\* the Duplicate column of a file in exportToMarkdown
markdownIsDuplicate(result, file) ==
    IF arrayIncludes(result.duplicates, file.name) THEN "Yes" ELSE "No"

\* what a call of analyzeDocument(t) leaves in the objects it made: the Set
\* seen of extractFileNames, the Map counts of findDuplicates, and the
\* lastIndex of their regular expressions, 0 after the exec that found nothing
leftBy(t) ==
    [seen      |-> extractLines([fileNames |-> <<>>, seen |-> {}], split(t, "\n"), 0).seen,
     counts    |-> countMatches(<<>>, execAll(t, 1)),
     lastIndex |-> 0]

\* newSeen with a Set kept from one call to the next
newSeen_kept(left) == left.seen

\* const seen = new Set<string>(), whatever an earlier call left
newSeen(left) == {}

\* const counts = new Map<string, number>(), whatever an earlier call left
newCounts(left) == <<>>

\* const regex = buildFileNameRegex(): the lastIndex of a new RegExp is 0
newLastIndex(left) == 0

\* analyzeDocument(t) called when an earlier call has left its objects
analyzeDocumentAfter(left, t) ==
    LET fileNames  == extractLines([fileNames |-> <<>>, seen |-> newSeen(left)],
                                   split(t, "\n"), 0).fileNames
        duplicates == namesOver(countMatches(newCounts(left),
                                             execAll(t, newLastIndex(left) + 1)))
    IN  extractionResult(fileNames, duplicates, groupByPattern(fileNames))

(***************************************************************************)
(* mergeAnalysisResults (analyze-batch/route.ts)                           *)
(***************************************************************************)
\* an absent optional property (description, aiEnhanced)
Undefined == "undefined"

\* addAll with an array push in place of Set.add
addAll_push(allDuplicates, dups) == allDuplicates \o dups

\* allDuplicates.add(dup) for each dup of dups, in order
RECURSIVE addAll(_, _)
addAll(allDuplicates, dups) ==
    IF dups = <<>> THEN allDuplicates
    ELSE addAll(IF \E i \in 1..Len(allDuplicates) : allDuplicates[i] = Head(dups)
                THEN allDuplicates
                ELSE Append(allDuplicates, Head(dups)),
                Tail(dups))

\* pattern.description, undefined on the groups of groupByPattern
descriptionOf(group) ==
    IF "description" \in DOMAIN group THEN group.description ELSE Undefined


\* mergePattern with existing.files = pattern.files in place of the push
mergePattern_overwrite(allPatterns, group) ==
    IF \E i \in 1..Len(allPatterns) : allPatterns[i].pattern = group.pattern
    THEN LET i == CHOOSE i \in 1..Len(allPatterns) : allPatterns[i].pattern = group.pattern
         IN  [allPatterns EXCEPT ![i].files = group.files]
    ELSE Append(allPatterns, [pattern     |-> group.pattern,
                              files       |-> group.files,
                              description |-> descriptionOf(group)])

\* mergePattern with existing.files.push(pattern.files[0])
mergePattern_pushFirst(allPatterns, group) ==
    IF \E i \in 1..Len(allPatterns) : allPatterns[i].pattern = group.pattern
    THEN LET i == CHOOSE i \in 1..Len(allPatterns) : allPatterns[i].pattern = group.pattern
         IN  [allPatterns EXCEPT ![i].files = @ \o SubSeq(group.files, 1, 1)]
    ELSE Append(allPatterns, [pattern     |-> group.pattern,
                              files       |-> group.files,
                              description |-> descriptionOf(group)])

\* the body of the loop over analysis.patterns for one group
mergePattern(allPatterns, group) ==
    IF \E i \in 1..Len(allPatterns) : allPatterns[i].pattern = group.pattern
    THEN LET i == CHOOSE i \in 1..Len(allPatterns) : allPatterns[i].pattern = group.pattern
         IN  [allPatterns EXCEPT ![i].files = @ \o group.files]
    ELSE Append(allPatterns, [pattern     |-> group.pattern,
                              files       |-> group.files,
                              description |-> descriptionOf(group)])

RECURSIVE mergePatterns(_, _)
mergePatterns(allPatterns, groups) ==
    IF groups = <<>> THEN allPatterns
    ELSE mergePatterns(mergePattern(allPatterns, Head(groups)), Tail(groups))

\* the loop over results; acc holds allPatterns, allDuplicates, sourceFiles
\* and aiEnhanced
RECURSIVE mergeLoop(_, _)
mergeLoop(acc, results) ==
    IF results = <<>> THEN acc
    ELSE LET r == Head(results)
         IN  mergeLoop([allPatterns   |-> mergePatterns(acc.allPatterns, r.analysis.patterns),
                        allDuplicates |-> addAll(acc.allDuplicates, r.analysis.duplicates),
                        sourceFiles   |-> Append(acc.sourceFiles, r.fileName),
                        aiEnhanced    |-> acc.aiEnhanced \/ r.analysis.aiEnhanced = TRUE],
                       Tail(results))

\* allPatterns as groups with their count
entriesToGroups(allPatterns) ==
    [i \in 1..Len(allPatterns) |->
        [pattern     |-> allPatterns[i].pattern,
         files       |-> allPatterns[i].files,
         count       |-> Len(allPatterns[i].files),
         description |-> allPatterns[i].description]]

\* patterns.reduce((sum, p) => sum + p.count, 0)
RECURSIVE sumCounts(_)
sumCounts(groups) ==
    IF groups = <<>> THEN 0 ELSE Head(groups).count + sumCounts(Tail(groups))

mergeAnalysisResults(results) ==
    LET acc == mergeLoop([allPatterns |-> <<>>, allDuplicates |-> <<>>,
                          sourceFiles |-> <<>>, aiEnhanced |-> FALSE], results)
        patterns == sortByCount(<<>>, entriesToGroups(acc.allPatterns))
    IN  [totalFound  |-> sumCounts(patterns),
         patterns    |-> patterns,
         duplicates  |-> acc.allDuplicates,
         aiEnhanced  |-> acc.aiEnhanced,
         sourceFiles |-> acc.sourceFiles]

\* The arrays that mergeAnalysisResults reads and writes.  The files array of
\* group g of result d is named <<d, g>>; the array made for the k-th entry of
\* allPatterns is named <<0, k>>.
inputArrays(results) ==
    [ref \in UNION {{<<d, g>> : g \in 1..Len(results[d].analysis.patterns)} :
                       d \in 1..Len(results)}
        |-> results[ref[1]].analysis.patterns[ref[2]].files]

\* newFilesArray with files: pattern.files, the array of the input group
newFilesArray_shared(k, ref) == ref

\* files: [...pattern.files] is a new array
newFilesArray(k, ref) == <<0, k>>

\* the body of the loop over analysis.patterns for group g of result d, on
\* the arrays: st.entries are the entries of allPatterns with the name of
\* their files array, st.arrays the content of every array
storePattern(st, d, g, pattern) ==
    LET source == st.arrays[<<d, g>>]
    IN  IF \E i \in 1..Len(st.entries) : st.entries[i].pattern = pattern
        THEN LET i == CHOOSE i \in 1..Len(st.entries) : st.entries[i].pattern = pattern
                 existing == st.entries[i].files
             IN  [st EXCEPT !.arrays[existing] = @ \o source]
        ELSE LET made == newFilesArray(Len(st.entries) + 1, <<d, g>>)
             IN  [entries |-> Append(st.entries, [pattern |-> pattern, files |-> made]),
                  arrays  |-> (made :> source) @@ st.arrays]

\* the two loops, over the results and over the groups of each
RECURSIVE storePatterns(_, _, _, _)
storePatterns(st, results, d, g) ==
    IF d > Len(results) THEN st
    ELSE IF g > Len(results[d].analysis.patterns)
    THEN storePatterns(st, results, d + 1, 1)
    ELSE storePatterns(storePattern(st, d, g, results[d].analysis.patterns[g].pattern),
                       results, d, g + 1)

\* the results given to mergeAnalysisResults as they are when it has
\* returned: their arrays are read again
resultsAfterMerge(results) ==
    LET st == storePatterns([entries |-> <<>>, arrays |-> inputArrays(results)],
                            results, 1, 1)
    IN  [d \in 1..Len(results) |->
            LET groups == results[d].analysis.patterns
                after  == [g \in 1..Len(groups) |->
                              [groups[g] EXCEPT !.files = st.arrays[<<d, g>>]]]
            IN  [results[d] EXCEPT !.analysis.patterns = after]]

(***************************************************************************)
(* sanitizeFileName and sanitizeFilePath (src/lib/sanitize.ts)              *)
(***************************************************************************)
\* the null byte, \0
NUL == "\\0"

\* [\/\\\?\*\|"<>:]
NameUnsafe == {"/", "\\", "?", "*", "|", "\"", "<", ">", ":"}

\* [<>:"|?*\x00-\x1f]
PathUnsafe == {"<", ">", ":", "\"", "|", "?", "*", NUL, "\t", "\n", "\r", "\f"}

\* const maxLength = 255
maxLength == 255

\* parts.length > 10
maxDepth == 10

UnnamedFile == <<"u","n","n","a","m","e","d","-","f","i","l","e">>

\* s.replace(/[class]/g, '')
removeAll(s, class) == SelectSeq(s, LAMBDA c : c \notin class)

\* s.replace(/[class]/g, ch)
replaceAll(s, class, ch) == [i \in 1..Len(s) |-> IF s[i] \in class THEN ch ELSE s[i]]

\* s.replace(/^[\s.]+|[\s.]+$/g, '')
stripDotsAndSpaces(s) ==
    LET keep == {i \in 1..Len(s) : s[i] \notin WhiteSpace \cup {"."}}
    IN  IF keep = {} THEN <<>> ELSE Slice(s, Min(keep), Max(keep))

\* s.lastIndexOf(ch): 0-based, -1 if ch is not in s
lastIndexOf(s, ch) == Max({i - 1 : i \in {i \in 1..Len(s) : s[i] = ch}} \cup {-1})

\* s.substring(a, b): 0-based, a and b brought into 0..s.length and swapped
\* if a > b
substring(s, a, b) ==
    LET ca == Max({0, Min({a, Len(s)})})
        cb == Max({0, Min({b, Len(s)})})
    IN  SubSeq(s, Min({ca, cb}) + 1, Max({ca, cb}))

\* s.includes(sub) for a string sub of two characters
includes2(s, c1, c2) == \E i \in 1..(Len(s) - 1) : s[i] = c1 /\ s[i + 1] = c2

\* s.replace(/^\/+/, '')
stripLeadingSlashes(s) ==
    LET keep == {i \in 1..Len(s) : s[i] # "/"}
    IN  IF keep = {} THEN <<>> ELSE Slice(s, Min(keep), Len(s))

\* the length limit of sanitizeFileName
limitLength(sanitized) ==
    IF Len(sanitized) > maxLength
    THEN LET ext  == substring(sanitized, lastIndexOf(sanitized, "."), Len(sanitized))
             name == substring(sanitized, 0, maxLength - Len(ext))
         IN  name \o ext
    ELSE sanitized

sanitizeFileName(fileName) ==
    IF fileName = <<>> THEN UnnamedFile
    ELSE LET noNull    == removeAll(fileName, {NUL})
             replaced  == replaceAll(noNull, NameUnsafe, "_")
             stripped  == stripDotsAndSpaces(replaced)
             sanitized == limitLength(stripped)
         IN  IF sanitized = <<>> \/ trim(sanitized) = <<>>
             THEN UnnamedFile
             ELSE sanitized

\* the depth limit of sanitizeFilePath
limitDepth(sanitized) ==
    LET parts == split(sanitized, "/")
    IN  IF Len(parts) > maxDepth
        THEN join(SubSeq(parts, 1, maxDepth), "/")
        ELSE sanitized

sanitizeFilePath(filePath) ==
    IF filePath = <<>> THEN [isValid |-> FALSE, sanitized |-> <<>>]
    ELSE IF includes2(filePath, ".", ".") \/ "~" \in Range(filePath)
    THEN [isValid |-> FALSE, sanitized |-> <<>>]
    ELSE LET noNull     == removeAll(filePath, {NUL})
             normalized == replaceAll(noNull, {"\\"}, "/")
             relative   == stripLeadingSlashes(normalized)
             replaced   == replaceAll(relative, PathUnsafe, "_")
         IN  [isValid |-> TRUE, sanitized |-> limitDepth(replaced)]

(***************************************************************************)
(* The inputs                                                              *)
(***************************************************************************)
Invoice001 == <<"I","n","v","o","i","c","e","_","0","0","1",".","p","d","f">>

INVOICE001 == <<"I","N","V","O","I","C","E","_","0","0","1",".","P","D","F">>

Invoice002 == <<"I","n","v","o","i","c","e","_","0","0","2",".","p","d","f">>

Notes == <<"n","o","t","e","s",".","t","x","t">>

ReadmeMd == <<"r","e","a","d","m","e",".","m","d">>

\* the file names a document text is written with
TextNames == {Invoice001, INVOICE001, Invoice002, Notes, ReadmeMd}

\* what follows a name in the text: a line break or a comma
TextSeps == {<<"\n">>, <<",">>}

\* pieces of text per document
MaxTyped == 3

\* the file names a list given to groupByPattern is made of: two with the
\* same prefix, two with different prefixes and the same pattern, two alone
AFile == <<"a","1",".","p","d","f">>

AFile2 == <<"a","2",".","t","x","t">>

Num12 == <<"1","2","-","a",".","p","d","f">>

Num13 == <<"1","3","-","b",".","p","d","f">>

BFile == <<"b",".","c","s","v">>

CFile == <<"c",".","d","o","c">>

\* the prefix of Num13 and a pattern unlike that of Num12
Num13Txt == <<"1","3","-","b",".","t","x","t">>

NamePool == {AFile, AFile2, Num12, Num13, Num13Txt, BFile, CFile}

\* names per list
MaxNames == 4

\* { ...analyzeDocument(text), aiEnhanced: false } (analyze-batch/route.ts)
regexAnalysis(t) ==
    LET a == analyzeDocument(t)
    IN  [totalFound |-> a.totalFound, patterns |-> a.patterns,
         duplicates |-> a.duplicates, aiEnhanced |-> FALSE]

\* the conversion of an AIAnalysisResult (analyze-batch/route.ts)
aiAnalysis(aiResult) ==
    [totalFound |-> aiResult.totalFound,
     patterns   |-> [i \in 1..Len(aiResult.patterns) |->
                        [pattern     |-> aiResult.patterns[i].pattern,
                         files       |-> [j \in 1..Len(aiResult.patterns[i].files) |->
                                            [name       |-> aiResult.patterns[i].files[j].name,
                                             extension  |-> aiResult.patterns[i].files[j].extension,
                                             confidence |-> aiResult.patterns[i].files[j].confidence]],
                         count       |-> aiResult.patterns[i].count,
                         description |-> aiResult.patterns[i].description]],
     duplicates |-> aiResult.duplicates,
     aiEnhanced |-> TRUE]

TextInvoices == <<"I","n","v","o","i","c","e","_","0","0","1",".","p","d","f","\n","I","n","v","o","i","c","e","_","0","0","2",".","p","d","f">>

TextMixed == <<"I","n","v","o","i","c","e","_","0","0","1",".","p","d","f","\n","I","n","v","o","i","c","e","_","0","0","2",".","p","d","f","\n","a","1",".","p","d","f","\n","b",".","c","s","v","\n","c",".","d","o","c">>

TextTwice == <<"I","n","v","o","i","c","e","_","0","0","1",".","p","d","f",",","I","n","v","o","i","c","e","_","0","0","1",".","p","d","f">>

InvoicePattern == <<"I","n","v","o","i","c","e","_","X","X","X",".","p","d","f">>

\* two results of analyzeWithAI: count is files.length and totalFound the sum
AIResultInvoices ==
    [totalFound |-> 1,
     patterns   |-> << [pattern |-> InvoicePattern, description |-> "Invoices",
                        files |-> << [name |-> Invoice001, extension |-> <<"p","d","f">>,
                                      confidence |-> "high"] >>,
                        count |-> 1] >>,
     duplicates |-> << toLowerCase(Invoice001) >>,
     summary |-> "Analysis complete", documentType |-> "Unknown document type"]

AIResultBills ==
    [totalFound |-> 3,
     patterns   |-> << [pattern |-> InvoicePattern, description |-> "Bills",
                        files |-> << [name |-> Invoice002, extension |-> <<"p","d","f">>,
                                      confidence |-> "medium"],
                                     [name |-> INVOICE001, extension |-> <<"p","d","f">>,
                                      confidence |-> "low"] >>,
                        count |-> 2],
                       [pattern |-> Miscellaneous, description |-> "Other files",
                        files |-> << [name |-> Notes, extension |-> extensionOf(Notes),
                                      confidence |-> "high"] >>,
                        count |-> 1] >>,
     duplicates |-> << toLowerCase(Notes) >>,
     summary |-> "Analysis complete", documentType |-> "Unknown document type"]

\* the per-document results a batch is made of: regex results with a group,
\* with a Miscellaneous group larger than the other group, with a duplicate
\* and with nothing found, and two AI results
DocPool ==
    { [fileName |-> "invoices.pdf", analysis |-> regexAnalysis(TextInvoices)],
      [fileName |-> "mixed.pdf",    analysis |-> regexAnalysis(TextMixed)],
      [fileName |-> "twice.docx",   analysis |-> regexAnalysis(TextTwice)],
      [fileName |-> "readme.docx",  analysis |-> regexAnalysis(ReadmeMd)],
      [fileName |-> "ai1.pdf",      analysis |-> aiAnalysis(AIResultInvoices)],
      [fileName |-> "ai2.pdf",      analysis |-> aiAnalysis(AIResultBills)] }

\* documents per batch
MaxDocs == 3

(***************************************************************************)
(* The POST handlers of /api/analyze and /api/analyze-batch                *)
(***************************************************************************)
\* CONFIG.SUPPORTED_EXTENSIONS (config.ts)
SUPPORTED_EXTENSIONS == {<<"p","d","f">>, <<"d","o","c","x">>}

\* the uploaded files: what parseDocument does with the file ("ok", "fails":
\* success false, "throws"), the text it extracts, what
\* { ...analyzeDocument(text), aiEnhanced: false } is for that text, and what
\* analyzeWithAI does with that text ("result", "null", "throws")
UploadInvoices ==
    [name |-> <<"i",".","p","d","f">>, parse |-> "ok", text |-> TextInvoices,
     regex |-> regexAnalysis(TextInvoices),
     ai |-> "result", aiResult |-> AIResultInvoices]

UploadTwice ==
    [name |-> <<"t",".","d","o","c","x">>, parse |-> "ok", text |-> TextTwice,
     regex |-> regexAnalysis(TextTwice),
     ai |-> "null", aiResult |-> AIResultInvoices]

UploadMixed ==
    [name |-> <<"M",".","P","D","F">>, parse |-> "ok", text |-> TextMixed,
     regex |-> regexAnalysis(TextMixed),
     ai |-> "throws", aiResult |-> AIResultInvoices]

UploadNotes ==
    [name |-> <<"n",".","t","x","t">>, parse |-> "ok", text |-> Notes,
     regex |-> regexAnalysis(Notes),
     ai |-> "result", aiResult |-> AIResultInvoices]

UploadBroken ==
    [name |-> <<"b",".","p","d","f">>, parse |-> "fails", text |-> <<>>,
     regex |-> regexAnalysis(<<>>),
     ai |-> "result", aiResult |-> AIResultInvoices]

UploadBlank ==
    [name |-> <<"e",".","d","o","c","x">>, parse |-> "ok", text |-> <<" ", "\n">>,
     regex |-> regexAnalysis(<<" ", "\n">>),
     ai |-> "result", aiResult |-> AIResultInvoices]

UploadCrash ==
    [name |-> <<"c",".","p","d","f">>, parse |-> "throws", text |-> <<>>,
     regex |-> regexAnalysis(<<>>),
     ai |-> "result", aiResult |-> AIResultInvoices]

UploadPool ==
    {UploadInvoices, UploadTwice, UploadMixed, UploadNotes, UploadBroken,
     UploadBlank, UploadCrash}

\* files per batch request
MaxFiles == 3

\* file.name.toLowerCase().split('.').pop()
fileExt(file) == extensionOf(file.name)

\* convertAIResultToStandard (analyze/route.ts)
convertAIResultToStandard(aiResult) ==
    [totalFound   |-> aiResult.totalFound,
     patterns     |-> aiAnalysis(aiResult).patterns,
     duplicates   |-> aiResult.duplicates,
     aiEnhanced   |-> TRUE,
     summary      |-> aiResult.summary,
     documentType |-> aiResult.documentType]

\* the value of a block of code: what it computed, or that it threw
Value(v) == [thrown |-> FALSE, value |-> v]

Thrown == [thrown |-> TRUE, value |-> <<>>]

\* onAIError without the try around analyzeWithAI: the error goes on
onAIError_uncaught(file) == Thrown

\* catch (aiError): the regex-based analysis
onAIError(file) == Value(file.regex)

\* the analysis of a parsed text by either handler; converted is what the
\* handler makes of the AIAnalysisResult
analyzeText(requested, available, file, converted) ==
    IF requested /\ available
    THEN CASE file.ai = "result" -> Value(converted)
           [] file.ai = "null"   -> Value(file.regex)
           [] file.ai = "throws" -> onAIError(file)
    ELSE Value(file.regex)

\* failure that records the file as a success
failure_asSuccess(file, error) ==
    [fileName |-> file.name, fileType |-> fileExt(file), success |-> TRUE,
     analysis |-> file.regex]

\* results.push({ ..., success: false, error })
failure(file, error) ==
    [fileName |-> file.name, fileType |-> fileExt(file), success |-> FALSE,
     error |-> error]

\* pushSuccess with unshift in place of push
pushSuccess_unshift(list, entry) == <<entry>> \o list

\* successfulAnalyses.push({ fileName: file.name, analysis })
pushSuccess(list, entry) == Append(list, entry)

\* the body of the loop of the batch handler for one file; st holds results
\* and successfulAnalyses
processFile(st, requested, available, file) ==
    IF fileExt(file) \notin SUPPORTED_EXTENSIONS
    THEN [st EXCEPT !.results = Append(@, failure(file, "Unsupported file type"))]
    ELSE IF file.parse = "throws"
    THEN [st EXCEPT !.results = Append(@, failure(file, "Unknown error"))]
    ELSE IF file.parse = "fails"
    THEN [st EXCEPT !.results = Append(@, failure(file, "Failed to parse document"))]
    ELSE IF trim(file.text) = <<>>
    THEN [st EXCEPT !.results = Append(@, failure(file, "Document is empty"))]
    ELSE LET got == analyzeText(requested, available, file, aiAnalysis(file.aiResult))
         IN  IF got.thrown
             THEN [st EXCEPT !.results = Append(@, failure(file, "Unknown error"))]
             ELSE [results |-> Append(st.results,
                                      [fileName |-> file.name, fileType |-> fileExt(file),
                                       success |-> TRUE, analysis |-> got.value]),
                   successfulAnalyses |->
                       pushSuccess(st.successfulAnalyses,
                                   [fileName |-> file.name, analysis |-> got.value])]

\* errorResponse(message, code, status)
errorResponse(status) == [status |-> status, success |-> FALSE]

\* the POST handler of /api/analyze for the files of the form (one at most)
postAnalyze(requested, available, formFiles) ==
    IF formFiles = <<>> THEN errorResponse(400)
    ELSE LET upload == formFiles[1]
         IN  IF fileExt(upload) \notin SUPPORTED_EXTENSIONS THEN errorResponse(400)
             ELSE IF upload.parse = "throws" THEN errorResponse(500)
             ELSE IF upload.parse = "fails" THEN errorResponse(400)
             ELSE IF trim(upload.text) = <<>> THEN errorResponse(400)
             ELSE LET got == analyzeText(requested, available, upload,
                                         convertAIResultToStandard(upload.aiResult))
                  IN  IF got.thrown THEN errorResponse(500)
                      ELSE [status |-> 200, success |-> TRUE, fileName |-> upload.name,
                            analysis |-> got.value,
                            aiUsed |-> requested /\ available]

\* a name longer than maxLength
LongRun == [i \in 1..(maxLength + 1) |-> "a"]

\* '../../../etc/passwd' (__tests__/sanitize.test.ts)
TraversalExample ==
    <<".",".","/",".",".","/",".",".","/","e","t","c","/","p","a","s","s","w","d">>

\* the pieces a file name given to sanitizeFileName is made of
NamePieces ==
    {LongRun, <<".">>, <<".", ".">>, <<"/">>, <<"\\">>, <<"e","t","c">>, <<" ">>,
     <<NUL>>, TraversalExample}

\* pieces per file name
MaxNamePieces == 3

\* six folders
DeepPath == <<"a","/","b","/","c","/","d","/","e","/","f","/">>

\* the pieces a path given to sanitizeFilePath is made of
PathPieces ==
    {<<"/">>, <<"\\">>, <<".">>, <<".", ".">>, <<NUL>>, <<"~">>, <<"a">>, DeepPath}

\* pieces per path
MaxPathPieces == 3

(***************************************************************************)
(* The rate limiter                                                        *)
(***************************************************************************)
\* RATE_LIMITS
RATE_LIMITS ==
    [API    |-> [windowMs |-> 60 * 1000, maxRequests |-> 60],
     UPLOAD |-> [windowMs |-> 60 * 1000, maxRequests |-> 10],
     AI     |-> [windowMs |-> 60 * 1000, maxRequests |-> 5],
     BATCH  |-> [windowMs |-> 5 * 60 * 1000, maxRequests |-> 3]]

\* what getClientId makes of the requests: the address of each client
Clients == {"10.0.0.1", "10.0.0.2"}

\* the time between two readings of Date.now(), in milliseconds
TickMs == 30 * 1000

\* readings of Date.now()
MaxTicks == 3

\* requests sent
MaxSent == 6

\* `${clientId}:${config.windowMs}`
rateKey(clientId, config) == <<clientId, config.windowMs>>

\* the 1% clean-up: the records whose resetTime is before now are deleted
cleanUp(store, at) ==
    [k \in {j \in DOMAIN store : ~(store[j].resetTime < at)} |-> store[k]]

\* windowExpired for a record that is kept for ever
windowExpired_never(record, at) == FALSE

\* record.resetTime < now
windowExpired(record, at) == record.resetTime < at

\* overLimit that lets one more call through
overLimit_late(count, config) == count > config.maxRequests + 1

\* record.count > config.maxRequests
overLimit(count, config) == count > config.maxRequests

\* checkRateLimit(clientId, config) at time at, with the store it finds;
\* cleaning says whether Math.random() < 0.01. The result is allowed and the
\* store the call leaves.
checkRateLimit(store, clientId, config, at, cleaning) ==
    LET key     == rateKey(clientId, config)
        found   == key \in DOMAIN store
        expired == found /\ windowExpired(store[key], at)
        kept    == IF cleaning THEN cleanUp(store, at) ELSE store
    IN  IF ~found \/ expired
        THEN [allowed   |-> TRUE,
              created   |-> TRUE,
              remaining |-> config.maxRequests - 1,
              store     |-> (key :> [count |-> 1, resetTime |-> at + config.windowMs])
                                @@ [k \in DOMAIN kept \ {key} |-> kept[k]]]
        ELSE [allowed   |-> ~overLimit(store[key].count + 1, config),
              created   |-> FALSE,
              remaining |-> IF overLimit(store[key].count + 1, config)
                            THEN 0
                            ELSE config.maxRequests - (store[key].count + 1),
              store     |-> [kept EXCEPT ![key].count = @ + 1]]

\* the configuration POST /api/analyze takes, from the header use-ai
analyzeRateLimitConfig(headerUseAI) ==
    IF headerUseAI THEN RATE_LIMITS.AI ELSE RATE_LIMITS.UPLOAD

(***************************************************************************)
(* The state machine                                                       *)
(***************************************************************************)
\* the combinedAnalysis of a batch without a successful analysis
EmptyCombined ==
    [totalFound |-> 0, patterns |-> <<>>, duplicates |-> <<>>,
     aiEnhanced |-> FALSE, sourceFiles |-> <<>>]

EmptyResult == [totalFound |-> 0, patterns |-> <<>>, duplicates |-> <<>>]

Routes == {"analyze", "group", "batch"}

\* no request is made
RequestIdle ==
    /\ endpoint = "none"
    /\ useAI = FALSE
    /\ aiAvailable = FALSE
    /\ files = <<>>
    /\ pos = 0
    /\ fileResults = <<>>
    /\ phase = "idle"
    /\ response = [status |-> 0, success |-> FALSE]
    /\ mergeCalls = 0

\* the rate limiter is not used
RateIdle ==
    /\ now = 0
    /\ rateLimitStore = <<>>
    /\ sent = 0
    /\ admittedAI = [c \in Clients |-> 0]
    /\ lastStatus = 0

\* identifyPattern is not called on its own
PatternIdle ==
    /\ nameGiven = <<>>
    /\ namePieces = 0
    /\ patternFound = <<>>

\* no call of checkRateLimit is recorded
LimiterIdle ==
    /\ lastCall = [made |-> FALSE]
    /\ windowCalls = <<>>

\* parsePDF is not called
PdfIdle == pdfCall = [state |-> "idle"]

\* none of the functions that are called on their own is called
CacheIdle ==
    /\ cacheNow = 0
    /\ cacheStore = <<>>
    /\ fellBack = {}
    /\ lastRequest = [made |-> FALSE, count |-> 0]

OtherIdle == PatternIdle /\ LimiterIdle /\ PdfIdle /\ CacheIdle

\* no sanitizer is called
SanitizeIdle ==
    /\ argKind = "none"
    /\ arg = <<>>
    /\ argPieces = 0
    /\ sanitizedName = <<>>
    /\ pathResult = [isValid |-> FALSE, sanitized |-> <<>>]
    /\ returned = FALSE

Init ==
    /\ route \in Routes
    /\ rawText = <<>>
    /\ typed = 0
    /\ extracted = <<>>
    /\ analysis = EmptyResult
    /\ clustered = <<>>
    /\ successfulAnalyses = <<>>
    /\ combinedAnalysis = EmptyCombined
    /\ nestedAnalysis = EmptyCombined
    /\ computed = {}
    /\ rerun = EmptyResult
    /\ SanitizeIdle
    /\ RequestIdle
    /\ RateIdle
    /\ OtherIdle

\* the document text grows by a file name and what follows it
TypeName(n, sep) ==
    /\ route = "analyze"
    /\ computed = {}
    /\ typed < MaxTyped
    /\ rawText' = rawText \o n \o sep
    /\ typed' = typed + 1
    /\ UNCHANGED <<route, extracted, analysis, clustered, successfulAnalyses,
                   combinedAnalysis, nestedAnalysis, computed>>
    /\ UNCHANGED outsideEngine

\* analyzeDocument(rawText), step by step; extracted is its local fileNames
Analyze ==
    /\ route = "analyze"
    /\ computed = {}
    /\ extracted' = extractFileNames(rawText)
    /\ analysis' = extractionResult(extracted', findDuplicates(rawText),
                                    groupByPattern(extracted'))
    /\ computed' = {"analysis"}
    /\ UNCHANGED <<route, rawText, typed, clustered, successfulAnalyses,
                   combinedAnalysis, nestedAnalysis>>
    /\ UNCHANGED outsideEngine

\* one more file name in the list given to groupByPattern; as in the output
\* of extractFileNames, no name comes twice, whatever the case
AddFile(n) ==
    /\ route = "group"
    /\ computed = {}
    /\ Len(extracted) < MaxNames
    /\ \A i \in 1..Len(extracted) : toLowerCase(extracted[i].name) # toLowerCase(n)
    /\ extracted' = Append(extracted, [name |-> n, extension |-> extensionOf(n),
                                       line |-> Len(extracted) + 1])
    /\ UNCHANGED <<route, rawText, typed, analysis, clustered, successfulAnalyses,
                   combinedAnalysis, nestedAnalysis, computed>>
    /\ UNCHANGED outsideEngine

Cluster ==
    /\ route = "group"
    /\ computed = {}
    /\ clustered' = groupByPattern(extracted)
    /\ computed' = {"clustered"}
    /\ UNCHANGED <<route, rawText, typed, extracted, analysis, successfulAnalyses,
                   combinedAnalysis, nestedAnalysis>>
    /\ UNCHANGED outsideEngine

\* successfulAnalyses.push({ fileName, analysis })
Submit(d) ==
    /\ route = "batch"
    /\ computed = {}
    /\ Len(successfulAnalyses) < MaxDocs
    /\ successfulAnalyses' = Append(successfulAnalyses, d)
    /\ UNCHANGED <<route, rawText, typed, extracted, analysis, clustered,
                   combinedAnalysis, nestedAnalysis, computed>>
    /\ UNCHANGED outsideEngine

\* successfulAnalyses.length > 0 ? mergeAnalysisResults(successfulAnalyses) : ...
Merge ==
    /\ route = "batch"
    /\ "combined" \notin computed
    /\ combinedAnalysis' = IF Len(successfulAnalyses) > 0
                           THEN mergeAnalysisResults(successfulAnalyses)
                           ELSE EmptyCombined
    /\ successfulAnalyses' = resultsAfterMerge(successfulAnalyses)
    /\ computed' = computed \cup {"combined"}
    /\ UNCHANGED <<route, rawText, typed, extracted, analysis, clustered,
                   nestedAnalysis>>
    /\ UNCHANGED outsideEngine

\* the same results merged in two steps: the results after the first one are
\* merged, and the first one is merged with that aggregate
MergeNested ==
    /\ route = "batch"
    /\ "nested" \notin computed
    /\ Len(successfulAnalyses) >= 3
    /\ nestedAnalysis' =
          mergeAnalysisResults(
              << Head(successfulAnalyses),
                 [fileName |-> "rest",
                  analysis |-> mergeAnalysisResults(Tail(successfulAnalyses))] >>)
    /\ successfulAnalyses' =
          LET inner == resultsAfterMerge(Tail(successfulAnalyses))
              rest  == [fileName |-> "rest",
                        analysis |-> mergeAnalysisResults(Tail(successfulAnalyses))]
              outer == resultsAfterMerge(<<Head(successfulAnalyses), rest>>)
          IN  <<outer[1]>> \o inner
    /\ computed' = computed \cup {"nested"}
    /\ UNCHANGED <<route, rawText, typed, extracted, analysis, clustered,
                   combinedAnalysis>>
    /\ UNCHANGED outsideEngine

\* analyzeDocument(rawText) once more, after the call of Analyze
AnalyzeAgain ==
    /\ route = "analyze"
    /\ computed = {"analysis"}
    /\ rerun' = analyzeDocumentAfter(leftBy(rawText), rawText)
    /\ computed' = {"analysis", "rerun"}
    /\ UNCHANGED <<route, rawText, typed, extracted, analysis, clustered,
                   successfulAnalyses, combinedAnalysis, nestedAnalysis>>
    /\ UNCHANGED <<sanitizeVars, requestVars, rateVars, otherVars>>

Next ==
    \/ \E n \in TextNames, sep \in TextSeps : TypeName(n, sep)
    \/ Analyze
    \/ \E n \in NamePool : AddFile(n)
    \/ Cluster
    \/ \E d \in DocPool : Submit(d)
    \/ Merge
    \/ MergeNested

Spec == Init /\ [][Next]_vars

\* the analyze entry point called twice on the same text
RerunInit == Init /\ route = "analyze"

RerunNext ==
    \/ \E n \in TextNames, sep \in TextSeps : TypeName(n, sep)
    \/ Analyze
    \/ AnalyzeAgain

RerunSpec == RerunInit /\ [][RerunNext]_vars

(***************************************************************************)
(* The calls of sanitizeFileName and sanitizeFilePath                      *)
(***************************************************************************)
\* the extraction engine is not used
EngineIdle ==
    /\ route = "none"
    /\ rawText = <<>>
    /\ typed = 0
    /\ extracted = <<>>
    /\ analysis = EmptyResult
    /\ clustered = <<>>
    /\ successfulAnalyses = <<>>
    /\ combinedAnalysis = EmptyCombined
    /\ nestedAnalysis = EmptyCombined
    /\ computed = {}
    /\ rerun = EmptyResult

SanitizeInit ==
    /\ EngineIdle
    /\ OtherIdle
    /\ RequestIdle
    /\ RateIdle
    /\ argKind \in {"name", "path"}
    /\ arg = <<>>
    /\ argPieces = 0
    /\ sanitizedName = <<>>
    /\ pathResult = [isValid |-> FALSE, sanitized |-> <<>>]
    /\ returned = FALSE

\* the file name grows by a piece
WriteName(piece) ==
    /\ argKind = "name"
    /\ ~returned
    /\ argPieces < MaxNamePieces
    /\ arg' = arg \o piece
    /\ argPieces' = argPieces + 1
    /\ UNCHANGED <<engineVars, rerun, requestVars, rateVars, otherVars, argKind, sanitizedName, pathResult, returned>>

\* the path grows by a piece
WritePath(piece) ==
    /\ argKind = "path"
    /\ ~returned
    /\ argPieces < MaxPathPieces
    /\ arg' = arg \o piece
    /\ argPieces' = argPieces + 1
    /\ UNCHANGED <<engineVars, rerun, requestVars, rateVars, otherVars, argKind, sanitizedName, pathResult, returned>>

SanitizeName ==
    /\ argKind = "name"
    /\ ~returned
    /\ sanitizedName' = sanitizeFileName(arg)
    /\ returned' = TRUE
    /\ UNCHANGED <<engineVars, rerun, requestVars, rateVars, otherVars, argKind, arg, argPieces, pathResult>>

SanitizePath ==
    /\ argKind = "path"
    /\ ~returned
    /\ pathResult' = sanitizeFilePath(arg)
    /\ returned' = TRUE
    /\ UNCHANGED <<engineVars, rerun, requestVars, rateVars, otherVars, argKind, arg, argPieces, sanitizedName>>

SanitizeNext ==
    \/ \E piece \in NamePieces : WriteName(piece)
    \/ \E piece \in PathPieces : WritePath(piece)
    \/ SanitizeName
    \/ SanitizePath

SanitizeSpec == SanitizeInit /\ [][SanitizeNext]_vars

(***************************************************************************)
(* A request to /api/analyze or /api/analyze-batch                         *)
(***************************************************************************)
\* the variables of the engine that a request does not use
engineRest == <<route, rawText, typed, extracted, analysis, clustered,
                nestedAnalysis, computed, rerun>>

RequestInit ==
    /\ EngineIdle
    /\ OtherIdle
    /\ SanitizeIdle
    /\ RateIdle
    /\ endpoint \in {"analyze", "analyze-batch"}
    /\ useAI \in BOOLEAN
    /\ aiAvailable \in BOOLEAN
    /\ files = <<>>
    /\ pos = 0
    /\ fileResults = <<>>
    /\ phase = "building"
    /\ response = [status |-> 0, success |-> FALSE]
    /\ mergeCalls = 0

\* the client adds a file to the form
AttachFile(file) ==
    /\ phase = "building"
    /\ Len(files) < (IF endpoint = "analyze" THEN 1 ELSE MaxFiles)
    /\ files' = Append(files, file)
    /\ UNCHANGED <<engineVars, rerun, sanitizeVars, rateVars, otherVars, endpoint, useAI,
                   aiAvailable, pos, fileResults, phase, response, mergeCalls>>

\* POST /api/analyze: the handler from the form to the response
PostAnalyze ==
    /\ endpoint = "analyze"
    /\ phase = "building"
    /\ response' = postAnalyze(useAI, aiAvailable, files)
    /\ phase' = "responded"
    /\ UNCHANGED <<engineVars, rerun, sanitizeVars, rateVars, otherVars, endpoint, useAI,
                   aiAvailable, files, pos, fileResults, mergeCalls>>

\* POST /api/analyze-batch: the form is read and the files are counted
PostBatch ==
    /\ endpoint = "analyze-batch"
    /\ phase = "building"
    /\ IF Len(files) = 0
       THEN /\ response' = errorResponse(400)
            /\ phase' = "responded"
       ELSE /\ phase' = "processing"
            /\ UNCHANGED response
    /\ UNCHANGED <<engineVars, rerun, sanitizeVars, rateVars, otherVars, endpoint, useAI,
                   aiAvailable, files, pos, fileResults, mergeCalls>>

\* one turn of the loop over the files
ProcessFile ==
    /\ phase = "processing"
    /\ pos < Len(files)
    /\ LET after == processFile([results |-> fileResults,
                              successfulAnalyses |-> successfulAnalyses],
                             useAI, aiAvailable, files[pos + 1])
       IN  /\ fileResults' = after.results
           /\ successfulAnalyses' = after.successfulAnalyses
    /\ pos' = pos + 1
    /\ UNCHANGED <<engineRest, combinedAnalysis, sanitizeVars, rateVars, otherVars, endpoint,
                   useAI, aiAvailable, files, phase, response, mergeCalls>>

\* after the loop: the merge of the successful analyses and the response
FinishBatch ==
    /\ phase = "processing"
    /\ pos = Len(files)
    /\ IF Len(successfulAnalyses) > 0
       THEN /\ combinedAnalysis' = mergeAnalysisResults(successfulAnalyses)
            /\ successfulAnalyses' = resultsAfterMerge(successfulAnalyses)
            /\ mergeCalls' = mergeCalls + 1
       ELSE /\ combinedAnalysis' = EmptyCombined
            /\ UNCHANGED <<successfulAnalyses, mergeCalls>>
    /\ response' = [status |-> 200, success |-> TRUE,
                    aiUsed |-> useAI /\ aiAvailable,
                    totalFiles |-> Len(files),
                    successfulFiles |-> Len(SelectSeq(fileResults, LAMBDA r : r.success)),
                    failedFiles |-> Len(SelectSeq(fileResults, LAMBDA r : ~r.success))]
    /\ phase' = "responded"
    /\ UNCHANGED <<engineRest, sanitizeVars, rateVars, otherVars, endpoint, useAI,
                   aiAvailable, files, pos, fileResults>>

RequestNext ==
    \/ \E file \in UploadPool : AttachFile(file)
    \/ PostAnalyze
    \/ PostBatch
    \/ ProcessFile
    \/ FinishBatch

RequestSpec == RequestInit /\ [][RequestNext]_vars

(***************************************************************************)
(* Requests through the rate limiter                                       *)
(***************************************************************************)
RateInit ==
    /\ EngineIdle
    /\ OtherIdle
    /\ SanitizeIdle
    /\ RequestIdle
    /\ RateIdle

\* time passes
Tick ==
    /\ now < MaxTicks * TickMs
    /\ now' = now + TickMs
    /\ UNCHANGED <<engineVars, rerun, sanitizeVars, requestVars, otherVars, rateLimitStore,
                   sent, admittedAI, lastStatus>>

\* POST /api/analyze up to the rate limit: the header use-ai chooses the
\* configuration, the form field useAI asks for the AI analysis
RateLimitAnalyze(clientId, headerUseAI, formUseAI, cleaning) ==
    /\ sent < MaxSent
    /\ LET rateLimitResult == checkRateLimit(rateLimitStore, clientId,
                                             analyzeRateLimitConfig(headerUseAI),
                                             now, cleaning)
           asksAI  == IF rateLimitResult.allowed /\ formUseAI THEN 1 ELSE 0
       IN  /\ rateLimitStore' = rateLimitResult.store
           /\ lastStatus' = IF rateLimitResult.allowed THEN 200 ELSE 429
           /\ admittedAI' = [admittedAI EXCEPT ![clientId] =
                                IF rateLimitResult.created THEN asksAI ELSE @ + asksAI]
    /\ sent' = sent + 1
    /\ UNCHANGED <<engineVars, rerun, sanitizeVars, requestVars, otherVars, now>>

\* POST /api/analyze-batch up to the rate limit
RateLimitBatch(clientId, cleaning) ==
    /\ sent < MaxSent
    /\ LET rateLimitResult == checkRateLimit(rateLimitStore, clientId,
                                             RATE_LIMITS.BATCH, now, cleaning)
       IN  /\ rateLimitStore' = rateLimitResult.store
           /\ lastStatus' = IF rateLimitResult.allowed THEN 200 ELSE 429
    /\ sent' = sent + 1
    /\ UNCHANGED <<engineVars, rerun, sanitizeVars, requestVars, otherVars, now, admittedAI>>

RateNext ==
    \/ Tick
    \/ \E clientId \in Clients, headerUseAI \in BOOLEAN, formUseAI \in BOOLEAN,
          cleaning \in BOOLEAN :
            RateLimitAnalyze(clientId, headerUseAI, formUseAI, cleaning)
    \/ \E clientId \in Clients, cleaning \in BOOLEAN :
            RateLimitBatch(clientId, cleaning)

RateSpec == RateInit /\ [][RateNext]_vars

(***************************************************************************)
(* Calls of identifyPattern                                                *)
(***************************************************************************)
\* the pieces a file name given to identifyPattern is made of: letters,
\* a separator, runs of digits (1, 45, 2019, 1231) and an extension
PatternPieces ==
    {<<"R">>, <<"_">>, <<"1">>, <<"4","5">>, <<"2","0","1","9">>,
     <<"1","2","3","1">>, <<".","p","d","f">>}

\* pieces per file name
MaxPatternPieces == 4

PatternInit ==
    /\ EngineIdle
    /\ SanitizeIdle
    /\ RequestIdle
    /\ RateIdle
    /\ PatternIdle
    /\ LimiterIdle
    /\ PdfIdle
    /\ CacheIdle

\* the caller writes the file name
WritePattern(piece) ==
    /\ patternFound = <<>>
    /\ namePieces < MaxPatternPieces
    /\ nameGiven' = nameGiven \o piece
    /\ namePieces' = namePieces + 1
    /\ UNCHANGED <<engineVars, rerun, sanitizeVars, requestVars, rateVars, limiterVars,
                   pdfCall, cacheVars, patternFound>>

\* identifyPattern(nameGiven)
Identify ==
    /\ patternFound = <<>>
    /\ nameGiven # <<>>
    /\ patternFound' = identifyPattern(nameGiven)
    /\ UNCHANGED <<engineVars, rerun, sanitizeVars, requestVars, rateVars, limiterVars,
                   pdfCall, cacheVars, nameGiven, namePieces>>

PatternNext ==
    \/ \E piece \in PatternPieces : WritePattern(piece)
    \/ Identify

PatternSpec == PatternInit /\ [][PatternNext]_vars

(***************************************************************************)
(* Calls of checkRateLimit                                                 *)
(***************************************************************************)
\* the names of the configurations of RATE_LIMITS
ConfigNames == {"API", "UPLOAD", "AI", "BATCH"}

\* calls of checkRateLimit
MaxCalls == 7

\* the clients whose calls are followed
Callers == {"10.0.0.1"}

\* the calls of a window that has just been created
NoCalls(at) ==
    [made |-> 0, createdAt |-> at, allowed |-> [n \in ConfigNames |-> 0],
     rejected |-> {}]

LimiterInit ==
    /\ EngineIdle
    /\ SanitizeIdle
    /\ RequestIdle
    /\ RateIdle
    /\ PatternIdle
    /\ LimiterIdle
    /\ PdfIdle
    /\ CacheIdle

\* a handler calls checkRateLimit(clientId, RATE_LIMITS[name])
Check(clientId, name, cleaning) ==
    /\ sent < MaxCalls
    /\ LET config == RATE_LIMITS[name]
           key    == rateKey(clientId, config)
           result == checkRateLimit(rateLimitStore, clientId, config, now, cleaning)
           before == IF result.created THEN NoCalls(now) ELSE windowCalls[key]
           after  == [made      |-> before.made + 1,
                      createdAt |-> before.createdAt,
                      allowed   |-> IF result.allowed
                                    THEN [before.allowed EXCEPT ![name] = @ + 1]
                                    ELSE before.allowed,
                      rejected  |-> IF result.allowed THEN before.rejected
                                    ELSE before.rejected \cup {name}]
       IN  /\ rateLimitStore' = result.store
           /\ lastCall' = [made      |-> TRUE,
                           clientId  |-> clientId,
                           name      |-> name,
                           at        |-> now,
                           expired   |-> /\ key \in DOMAIN rateLimitStore
                                         /\ rateLimitStore[key].resetTime < now,
                           previous  |-> IF key \in DOMAIN windowCalls
                                         THEN windowCalls[key] ELSE NoCalls(now),
                           before    |-> before,
                           allowed   |-> result.allowed,
                           remaining |-> result.remaining]
           /\ windowCalls' = [k \in DOMAIN result.store |->
                                 IF k = key THEN after ELSE windowCalls[k]]
    /\ sent' = sent + 1
    /\ UNCHANGED <<engineVars, rerun, sanitizeVars, requestVars, patternVars, pdfCall, cacheVars,
                   now, admittedAI, lastStatus>>

LimiterNext ==
    \/ Tick
    \/ \E clientId \in Callers, name \in ConfigNames, cleaning \in BOOLEAN :
            Check(clientId, name, cleaning)

LimiterSpec == LimiterInit /\ [][LimiterNext]_vars

(***************************************************************************)
(* parsePDF                                                                *)
(***************************************************************************)
\* CONFIG.MAX_RETRIES
MAX_RETRIES == 2

\* the largest retries a caller gives
MaxRetriesGiven == 3

\* s.includes(w)
includes(s, w) ==
    \E i \in 1..(Len(s) - Len(w) + 1) : SubSeq(s, i, i + Len(w) - 1) = w

InvalidPDF == <<"I","n","v","a","l","i","d"," ","P","D","F">>

Password == <<"p","a","s","s","w","o","r","d">>

Encrypted == <<"e","n","c","r","y","p","t","e","d">>

\* the messages of the errors that extractText throws
ErrorMessages ==
    {InvalidPDF \o <<"!">>, <<"n","o"," ">> \o Password, <<"i","s"," ">> \o Encrypted,
     <<"i","n","v","a","l","i","d"," ","p","d","f">>, <<"E","O","F">>}

\* the buffers: null, of length 0, not starting with '%PDF', starting with it
Buffers == {"null", "empty", "text", "pdf"}

\* extractText returns: no error is thrown
NoError == <<>>

\* noRetry that lets every error be retried
noRetry_never(message) == FALSE

\* 'Don't retry for certain errors'
noRetry(message) ==
    \/ includes(message, InvalidPDF)
    \/ includes(message, Password)
    \/ includes(message, Encrypted)

\* the error of the ParseResult after the loop
errorMessage(lastError) ==
    LET message == IF lastError = <<>> THEN "Failed to parse PDF" ELSE lastError
    IN  IF lastError # <<>> /\ (includes(lastError, Password) \/ includes(lastError, Encrypted))
        THEN "PDF is password-protected or encrypted. Please provide an unprotected PDF."
        ELSE IF lastError # <<>> /\ includes(lastError, InvalidPDF)
        THEN "The file appears to be corrupted or is not a valid PDF."
        ELSE message

PdfInit ==
    /\ EngineIdle
    /\ SanitizeIdle
    /\ RequestIdle
    /\ RateIdle
    /\ PatternIdle
    /\ LimiterIdle
    /\ CacheIdle
    /\ \E buffer \in Buffers, retries \in 0..MaxRetriesGiven :
          pdfCall = [state |-> "loop", buffer |-> buffer, retries |-> retries,
                     attempt |-> 0, extractions |-> 0, thrown |-> <<>>,
                     lastError |-> <<>>]

pdfRest == <<engineVars, rerun, sanitizeVars, requestVars, rateVars, patternVars,
             limiterVars, cacheVars>>

\* one turn of the loop; outcome is what extractText does: NoError, or the
\* message of the error it throws
Attempt(outcome) ==
    /\ pdfCall.state = "loop"
    /\ pdfCall.attempt <= pdfCall.retries
    /\ pdfCall' =
          IF pdfCall.buffer \in {"null", "empty"}
          THEN [pdfCall EXCEPT !.state = "returned"] @@
               [result |-> [success |-> FALSE, text |-> "",
                            error |-> "Empty or invalid PDF buffer provided"]]
          ELSE IF pdfCall.buffer = "text"
          THEN [pdfCall EXCEPT !.state = "returned"] @@
               [result |-> [success |-> FALSE, text |-> "",
                            error |-> "File does not appear to be a valid PDF (missing PDF header)"]]
          ELSE IF outcome = NoError
          THEN [pdfCall EXCEPT !.state = "returned", !.extractions = @ + 1] @@
               [result |-> [success |-> TRUE, text |-> "text", pageCount |-> 1]]
          ELSE [pdfCall EXCEPT !.extractions = @ + 1,
                               !.lastError = outcome,
                               !.thrown = Append(@, outcome),
                               !.state = IF noRetry(outcome) THEN "after" ELSE "loop",
                               !.attempt = IF noRetry(outcome) THEN @ ELSE @ + 1]
    /\ UNCHANGED pdfRest

\* after the loop: the failure with its message
GiveUp ==
    /\ \/ pdfCall.state = "after"
       \/ pdfCall.state = "loop" /\ pdfCall.attempt > pdfCall.retries
    /\ pdfCall' = [pdfCall EXCEPT !.state = "returned"] @@
                  [result |-> [success |-> FALSE, text |-> "",
                               error |-> errorMessage(pdfCall.lastError)]]
    /\ UNCHANGED pdfRest

PdfNext ==
    \/ \E outcome \in {NoError} \cup ErrorMessages : Attempt(outcome)
    \/ GiveUp

PdfSpec == PdfInit /\ [][PdfNext]_vars

(***************************************************************************)
(* Requests to the caching handler of /api/analyze, from the cache key to  *)
(* the response, for requests that the rate limiter admitted                *)
(***************************************************************************)
\* the documents uploaded to the caching handler
CacheDocs == {UploadInvoices, UploadNotes, UploadBroken}

\* what analyzeWithAI does in a request
AIOutcomes == {"result", "null", "throws"}

\* requests per behaviour
MaxRequests == 3

\* the clock advances by half an hour, MaxCacheTicks times at most
CacheTickMs == 30 * 60 * 1000
MaxCacheTicks == 3

\* 60 * 60 * 1000, the ttl given to cache.set
CacheTTL == 3600000

\* the bytes of an upload: what the parser and the analysers read
bufferOf(doc) == [parse |-> doc.parse, text |-> doc.text]

\* Cache.generateKey: the prefix and the SHA-256 of the buffer, which is
\* taken to be different for different buffers
generateKey(buffer, prefix) == [prefix |-> prefix, hash |-> buffer]

\* the store without the key
storeDelete(store, key) == [k \in DOMAIN store \ {key} |-> store[k]]

\* Cache.get: data is null (Undefined here) for no entry and for an
\* expired one, which is deleted
cacheGet(store, key, at) ==
    IF key \notin DOMAIN store THEN [hit |-> FALSE, store |-> store]
    ELSE IF at > store[key].expiresAt
         THEN [hit |-> FALSE, store |-> storeDelete(store, key)]
         ELSE [hit |-> TRUE, data |-> store[key].data, store |-> store]

\* Cache.cleanup
cacheCleanup(store, at) ==
    [k \in {j \in DOMAIN store : ~(at > store[j].expiresAt)} |-> store[k]]

\* Cache.set
cacheSet(store, key, data, ttl, at) ==
    LET entry == [data |-> data, timestamp |-> at, expiresAt |-> at + ttl]
        put   == [k \in DOMAIN store \cup {key} |->
                     IF k = key THEN entry ELSE store[k]]
    IN  IF Cardinality(DOMAIN put) > 1000 THEN cacheCleanup(put, at) ELSE put

\* the handler from the cache key on: the response, the store after it,
\* and whether analyzeWithAI was called
analyzeCached(store, doc, requested, available, outcome, at) ==
    LET upload   == [doc EXCEPT !.ai = outcome]
        cacheKey == generateKey(bufferOf(doc), IF requested THEN "ai" ELSE "regex")
        cached   == cacheGet(store, cacheKey, at)
        ok(a)    == [status |-> 200, success |-> TRUE,
                     fileName |-> sanitizeFileName(doc.name),
                     analysis |-> a, aiUsed |-> requested /\ available]
    IN  IF fileExt(doc) \notin SUPPORTED_EXTENSIONS
        THEN [response |-> errorResponse(400), store |-> store,
              hit |-> FALSE, attempted |-> FALSE]
        ELSE IF cached.hit
        THEN [response |-> ok(cached.data.analysisResult), store |-> cached.store,
              hit |-> TRUE, attempted |-> FALSE]
        ELSE IF upload.parse = "throws"
        THEN [response |-> errorResponse(500), store |-> cached.store,
              hit |-> FALSE, attempted |-> FALSE]
        ELSE IF upload.parse = "fails" \/ trim(upload.text) = <<>>
        THEN [response |-> errorResponse(400), store |-> cached.store,
              hit |-> FALSE, attempted |-> FALSE]
        ELSE LET got == analyzeText(requested, available, upload,
                                    convertAIResultToStandard(upload.aiResult))
                 data == [parseResult |-> [success |-> TRUE, text |-> upload.text],
                          analysisResult |-> got.value]
             IN  IF got.thrown
                 THEN [response |-> errorResponse(500), store |-> cached.store,
                       hit |-> FALSE, attempted |-> requested /\ available]
                 ELSE [response |-> ok(got.value),
                       store |-> cacheSet(cached.store, cacheKey, data, CacheTTL, at),
                       hit |-> FALSE, attempted |-> requested /\ available]

CacheInit ==
    /\ EngineIdle
    /\ SanitizeIdle
    /\ RequestIdle
    /\ RateIdle
    /\ PatternIdle
    /\ LimiterIdle
    /\ PdfIdle
    /\ CacheIdle

cacheRest == <<engineVars, rerun, sanitizeVars, requestVars, rateVars, patternVars,
               limiterVars, pdfCall>>

\* time passes between two requests
CacheTick ==
    /\ cacheNow < MaxCacheTicks * CacheTickMs
    /\ cacheNow' = cacheNow + CacheTickMs
    /\ UNCHANGED <<cacheStore, fellBack, lastRequest, cacheRest>>

\* one request with the document doc
CachedAnalyze(doc, requested, available, outcome) ==
    /\ lastRequest.count < MaxRequests
    /\ LET done == analyzeCached(cacheStore, doc, requested, available, outcome,
                                 cacheNow)
       IN  /\ cacheStore' = done.store
           /\ fellBack' =
                 IF done.attempted /\ outcome # "result" /\ done.response.status = 200
                 THEN fellBack \cup {bufferOf(doc)} ELSE fellBack
           /\ lastRequest' =
                 [made |-> TRUE, count |-> lastRequest.count + 1,
                  buffer |-> bufferOf(doc), useAI |-> requested,
                  available |-> available, outcome |-> outcome,
                  fellBackBefore |-> bufferOf(doc) \in fellBack,
                  hit |-> done.hit, attempted |-> done.attempted,
                  response |-> done.response]
    /\ UNCHANGED <<cacheNow, cacheRest>>

CacheNext ==
    \/ CacheTick
    \/ \E doc \in CacheDocs, requested \in BOOLEAN, available \in BOOLEAN,
          outcome \in AIOutcomes :
          CachedAnalyze(doc, requested, available, outcome)

CacheSpec == CacheInit /\ [][CacheNext]_vars

(***************************************************************************)
(* Properties                                                              *)
(***************************************************************************)
\* the positions <<g, j>> of the files of a list of groups
Slots(gs) == UNION {{<<g, j>> : j \in 1..Len(gs[g].files)} : g \in 1..Len(gs)}

\* how many times x occurs in the sequence q
CountIn(q, x) == Cardinality({i \in 1..Len(q) : q[i] = x})

IsMisc(g) == g.pattern = Miscellaneous

\* the lines of rawText
Lines == split(rawText, "\n")

\* C1: every ExtractedName of extractFileNames(text) is in exactly one
\* PatternGroup.files of groupByPattern(extractFileNames(text)), and the
\* groups hold no file that the tokenizer did not return.
C1_Partition ==
    "analysis" \in computed =>
        LET gs == analysis.patterns
        IN  /\ \A i \in 1..Len(extracted) :
                 Cardinality({sl \in Slots(gs) :
                                gs[sl[1]].files[sl[2]] = extracted[i]}) = 1
            /\ \A sl \in Slots(gs) :
                 \E i \in 1..Len(extracted) : gs[sl[1]].files[sl[2]] = extracted[i]

\* a text whose singleton was demoted into Miscellaneous next to a group
C1_Witness ==
    /\ "analysis" \in computed
    /\ Len(analysis.patterns) = 2
    /\ IsMisc(analysis.patterns[2])
    /\ Len(extracted) = 3

\* the counts of the groups gs[1..n] added up
RECURSIVE TotalCount(_, _)
TotalCount(gs, n) == IF n = 0 THEN 0 ELSE gs[n].count + TotalCount(gs, n - 1)

CountsOK(r) ==
    /\ \A g \in 1..Len(r.patterns) : r.patterns[g].count = Len(r.patterns[g].files)
    /\ r.totalFound = TotalCount(r.patterns, Len(r.patterns))

\* C2: in every result of analyzeDocument (returned by the analyze route or
\* collected for a batch) and in every aggregate of mergeAnalysisResults,
\* count = files.length for each group and totalFound is the sum of the counts.
C2_Counts ==
    /\ "analysis" \in computed => CountsOK(analysis)
    /\ \A d \in 1..Len(successfulAnalyses) :
          ~successfulAnalyses[d].analysis.aiEnhanced
             => CountsOK(successfulAnalyses[d].analysis)
    /\ "combined" \in computed => CountsOK(combinedAnalysis)
    /\ "nested" \in computed => CountsOK(nestedAnalysis)

\* a batch with a result of analyzeDocument that has a duplicate, merged with
\* another result into a group larger than the input groups
C2_Witness ==
    /\ "combined" \in computed
    /\ \E d \in 1..Len(successfulAnalyses) :
          /\ ~successfulAnalyses[d].analysis.aiEnhanced
          /\ successfulAnalyses[d].analysis.duplicates # <<>>
    /\ \E g \in 1..Len(combinedAnalysis.patterns) :
          combinedAnalysis.patterns[g].count >= 4

\* what C3 says of the output gs of groupByPattern for the input fs
DemotionOK(gs, fs) ==
    /\ \A g \in 1..Len(gs) : ~IsMisc(gs[g]) => gs[g].count # 1
    /\ Cardinality({g \in 1..Len(gs) : IsMisc(gs[g])}) <= 1
    /\ LET cs == clustersOf(fs)
       IN  (\E g \in 1..Len(gs) : IsMisc(gs[g]))
              <=> (\E c \in 1..Len(cs) : Len(cs[c].files) = 1)

\* C3: in the output of groupByPattern no group other than Miscellaneous has
\* count 1, at most one group is Miscellaneous, and there is a Miscellaneous
\* group exactly when some cluster had one file before the demotion.
C3_Demotion ==
    /\ "clustered" \in computed => DemotionOK(clustered, extracted)
    /\ "analysis" \in computed => DemotionOK(analysis.patterns, extracted)

\* a list with a cluster of two files and two files that are alone
C3_Witness ==
    /\ "clustered" \in computed
    /\ Len(clustered) = 2
    /\ clustered[1].count = 2
    /\ IsMisc(clustered[2])
    /\ clustered[2].count = 2

\* line l holds exactly the file name n
LineIs(l, n) == Lines[l] = n /\ execAll(n, 1) = <<n>>

\* C4: when the same file name is, verbatim, on two different lines,
\* extractFileNames emits exactly one ExtractedName for it and the result of
\* findDuplicates contains the lower-cased name.
C4_DuplicateOnTwoLines ==
    "analysis" \in computed =>
        \A l1, l2 \in 1..Len(Lines) :
            l1 < l2 /\ LineIs(l1, Lines[l1]) /\ Lines[l2] = Lines[l1] =>
                /\ Cardinality({i \in 1..Len(extracted) :
                       toLowerCase(extracted[i].name) = toLowerCase(Lines[l1])}) = 1
                /\ \E k \in 1..Len(analysis.duplicates) :
                       analysis.duplicates[k] = toLowerCase(Lines[l1])

\* the text holds one file name, n, once
OnlyName(n) == typed = 1 /\ \E sep \in TextSeps : rawText = n \o sep

SingleMisc(r) ==
    /\ r.totalFound = 1
    /\ Len(r.patterns) = 1
    /\ IsMisc(r.patterns[1])
    /\ r.patterns[1].count = 1

\* C5: for a text that contains readme.md once and no other file name,
\* analyzeDocument returns totalFound = 1 and one group, Miscellaneous, of
\* count 1.
C5_ReadmeMd ==
    "analysis" \in computed /\ OnlyName(ReadmeMd) => SingleMisc(analysis)

\* C5 as amended: a text that contains one file name once, the extension
\* being one of FILE_EXTENSIONS, gives totalFound = 1 and one group,
\* Miscellaneous, of count 1; readme.md, whose extension is not in the list,
\* gives totalFound = 0 and no group.
C5_SingleName ==
    "analysis" \in computed =>
        \A n \in TextNames :
            OnlyName(n) =>
                IF \E x \in DOMAIN FILE_EXTENSIONS : extensionOf(n) = FILE_EXTENSIONS[x]
                THEN SingleMisc(analysis) /\ analysis.patterns[1].files[1].name = n
                ELSE analysis.totalFound = 0 /\ analysis.patterns = <<>>

C5_Witness ==
    /\ "analysis" \in computed
    /\ OnlyName(Notes)
    /\ analysis.totalFound = 1

\* C6: for the empty string and for any text in which the tokenizing pattern
\* matches nothing, analyzeDocument returns totalFound = 0, no group (no
\* Miscellaneous either) and no duplicate.
C6_NoMatch ==
    "analysis" \in computed /\ execAll(rawText, 1) = <<>> =>
        /\ extracted = <<>>
        /\ analysis.totalFound = 0
        /\ analysis.patterns = <<>>
        /\ analysis.duplicates = <<>>

\* a text that is not empty and in which the pattern matches nothing
C6_Witness ==
    /\ "analysis" \in computed
    /\ typed = 2
    /\ execAll(rawText, 1) = <<>>

\* the matches of the pattern on the line ln, lower-cased
LowerMatches(ln) ==
    LET ms == execAll(ln, 1)
    IN  {toLowerCase(trim(ms[k])) : k \in 1..Len(ms)}

\* what follows the last dot of n
AfterLastDot(n) ==
    LET dots == {i \in 1..Len(n) : n[i] = "."}
    IN  IF dots = {} THEN n ELSE Slice(n, Max(dots) + 1, Len(n))

\* C7: the list of extractFileNames has no two names equal after
\* lower-casing, the line of an entry is the 1-based number of the first line
\* on which its name was matched, whatever the case, and its extension is the
\* lower-cased part of its name after the last dot.
C7_Tokenizer ==
    "analysis" \in computed =>
        /\ \A i, j \in 1..Len(extracted) :
              i # j => toLowerCase(extracted[i].name) # toLowerCase(extracted[j].name)
        /\ LET found == [l \in 1..Len(Lines) |-> LowerMatches(Lines[l])]
           IN  \A i \in 1..Len(extracted) :
                  LET on == {l \in 1..Len(Lines) :
                                toLowerCase(extracted[i].name) \in found[l]}
                  IN  on # {} /\ extracted[i].line = Min(on)
        /\ \A i \in 1..Len(extracted) :
              extracted[i].extension = toLowerCase(AfterLastDot(extracted[i].name))

\* INVOICE_001.PDF on line 1, the same name in another case on line 2 and
\* another name on line 3
C7_Witness ==
    /\ "analysis" \in computed
    /\ Len(Lines) >= 3
    /\ Lines[1] = INVOICE001
    /\ Lines[2] = Invoice001
    /\ Len(extracted) = 2
    /\ extracted[2].line = 3

\* the groups of all the per-document results rs, in document order and then
\* in the order of each document
RECURSIVE InputGroups(_)
InputGroups(rs) ==
    IF rs = <<>> THEN <<>>
    ELSE Head(rs).analysis.patterns \o InputGroups(Tail(rs))

\* the files of the groups of gs whose pattern string is p, one after another
RECURSIVE FilesOf(_, _)
FilesOf(gs, p) ==
    IF gs = <<>> THEN <<>>
    ELSE (IF Head(gs).pattern = p THEN Head(gs).files ELSE <<>>) \o FilesOf(Tail(gs), p)

\* the description of the first group of gs whose pattern string is p
FirstDescription(gs, p) ==
    descriptionOf(gs[Min({i \in 1..Len(gs) : gs[i].pattern = p})])

\* C8: mergeAnalysisResults gives exactly one group per distinct pattern
\* string of the inputs; its files are the files of every input group with
\* that pattern string, in document order and then in-document order, and its
\* description is that of the first input group seen with the pattern string.
C8_MergeGroups ==
    "combined" \in computed =>
        LET ins == InputGroups(successfulAnalyses)
            out == combinedAnalysis.patterns
        IN  /\ {out[g].pattern : g \in 1..Len(out)} = {ins[i].pattern : i \in 1..Len(ins)}
            /\ \A g, h \in 1..Len(out) : g # h => out[g].pattern # out[h].pattern
            /\ \A g \in 1..Len(out) :
                  /\ out[g].files = FilesOf(ins, out[g].pattern)
                  /\ out[g].description = FirstDescription(ins, out[g].pattern)

\* two AI results with the same pattern string and different descriptions,
\* merged into the group of the three files with the first description
C8_Witness ==
    /\ "combined" \in computed
    /\ Len(successfulAnalyses) = 2
    /\ \E g \in 1..Len(combinedAnalysis.patterns) :
          /\ combinedAnalysis.patterns[g].pattern = InvoicePattern
          /\ combinedAnalysis.patterns[g].description = "Invoices"
          /\ combinedAnalysis.patterns[g].count = 3
    /\ \E g \in 1..Len(successfulAnalyses[2].analysis.patterns) :
          /\ successfulAnalyses[2].analysis.patterns[g].pattern = InvoicePattern
          /\ descriptionOf(successfulAnalyses[2].analysis.patterns[g]) = "Bills"

\* C9: in the aggregate of mergeAnalysisResults the groups are in descending
\* order of count and a Miscellaneous group, if present, is the last one
\* whatever its count.
C9_MergedOrder ==
    "combined" \in computed =>
        LET out == combinedAnalysis.patterns
        IN  /\ \A g, h \in 1..Len(out) :
                  g < h /\ ~IsMisc(out[g]) /\ ~IsMisc(out[h])
                     => out[g].count >= out[h].count
            /\ \A g \in 1..Len(out) : IsMisc(out[g]) => g = Len(out)

\* the pattern strings of a result
PatternsOf(r) == {r.patterns[g].pattern : g \in 1..Len(r.patterns)}

\* the files of the group of r whose pattern string is p
GroupFiles(r, p) ==
    r.patterns[CHOOSE g \in 1..Len(r.patterns) : r.patterns[g].pattern = p].files

\* q1 and q2 hold the same elements the same number of times
SameMultiset(q1, q2) ==
    /\ Len(q1) = Len(q2)
    /\ \A i \in 1..Len(q1) : CountIn(q1, q1[i]) = CountIn(q2, q1[i])

\* C10: merging [A, B, C] and merging [A, merge([B, C])] give the same set of
\* pattern strings and, for each pattern string, the same multiset of files.
C10_MergeAssociative ==
    "combined" \in computed /\ "nested" \in computed =>
        /\ PatternsOf(combinedAnalysis) = PatternsOf(nestedAnalysis)
        /\ \A p \in PatternsOf(combinedAnalysis) :
              SameMultiset(GroupFiles(combinedAnalysis, p), GroupFiles(nestedAnalysis, p))

\* three results that share a pattern string, merged both ways
C10_Witness ==
    /\ "combined" \in computed
    /\ "nested" \in computed
    /\ Len(successfulAnalyses) = 3
    /\ \A d \in 1..3 : InvoicePattern \in PatternsOf(successfulAnalyses[d].analysis)
    /\ successfulAnalyses[2] # successfulAnalyses[3]
    /\ Len(GroupFiles(nestedAnalysis, InvoicePattern)) >= 5

\* the duplicates of all the per-document results rs
InputDuplicates(rs) ==
    UNION {{rs[d].analysis.duplicates[k] : k \in 1..Len(rs[d].analysis.duplicates)} :
              d \in 1..Len(rs)}

\* C11: the duplicates list of the aggregate of mergeAnalysisResults holds
\* every duplicate of every input result, nothing else, and no string twice;
\* a name that is in the merged file lists more than once without being a
\* duplicate of an input is not in it.
C11_DuplicatesUnion ==
    "combined" \in computed /\ Len(successfulAnalyses) > 0 =>
        LET out == combinedAnalysis.duplicates
        IN  /\ {out[k] : k \in 1..Len(out)} = InputDuplicates(successfulAnalyses)
            /\ \A k, l \in 1..Len(out) : k # l => out[k] # out[l]

\* two results with the same duplicate and a third with another duplicate
C11_Witness ==
    /\ "combined" \in computed
    /\ Len(successfulAnalyses) = 3
    /\ successfulAnalyses[1].analysis.duplicates = <<toLowerCase(Invoice001)>>
    /\ successfulAnalyses[2].analysis.duplicates = <<toLowerCase(Invoice001)>>
    /\ successfulAnalyses[1] # successfulAnalyses[2]
    /\ successfulAnalyses[3].analysis.duplicates = <<toLowerCase(Notes)>>
    /\ combinedAnalysis.duplicates = <<toLowerCase(Invoice001), toLowerCase(Notes)>>

\* the result pushed for the document called name
Pushed(name) == CHOOSE doc \in DocPool : doc.fileName = name

\* C12: mergeAnalysisResults leaves its inputs as they were: when it has
\* returned, every input result has the groups, files (length and order),
\* counts and duplicates that it was pushed with.
C12_InputsUnchanged ==
    "combined" \in computed =>
        \A d \in 1..Len(successfulAnalyses) :
            successfulAnalyses[d] = Pushed(successfulAnalyses[d].fileName)

\* two different results with the same pattern string: the files of the
\* second were appended to the merged group, the first has its two files
C12_Witness ==
    /\ "combined" \in computed
    /\ Len(successfulAnalyses) = 2
    /\ successfulAnalyses[1].fileName = "invoices.pdf"
    /\ successfulAnalyses[2].fileName = "ai2.pdf"
    /\ Len(GroupFiles(combinedAnalysis, InvoicePattern)) = 4
    /\ Len(GroupFiles(successfulAnalyses[1].analysis, InvoicePattern)) = 2

CommonLead(p, q) ==
    Max({k \in 0..Min({Len(p), Len(q)}) : \A i \in 1..k : p[i] = q[i]})

\* similarity strictly greater than 0.85: 1 for identical patterns, otherwise
\* the common leading run over the length of the longer pattern
Similar(p, q) ==
    p = q \/ CommonLead(p, q) * 100 > 85 * Max({Len(p), Len(q)})

\* the clusters of the names fs: each name goes to the first cluster, in
\* creation order, whose first name has its prefix or a similar pattern, and
\* to a new cluster if there is none
RECURSIVE FirstFit(_, _)
FirstFit(cl, fs) ==
    IF fs = <<>> THEN cl
    ELSE LET f == Head(fs)
             fit == {k \in 1..Len(cl) :
                        \/ extractPrefix(cl[k][1].name) = extractPrefix(f.name)
                        \/ Similar(identifyPattern(cl[k][1].name), identifyPattern(f.name))}
         IN  FirstFit(IF fit = {} THEN Append(cl, <<f>>)
                      ELSE [cl EXCEPT ![Min(fit)] = Append(@, f)],
                      Tail(fs))

\* C20: groupByPattern takes the names in input order and puts each in the
\* first existing cluster, in creation order, whose prefix is the prefix of
\* the name or whose pattern has a similarity above 0.85 with the pattern of
\* the name, and in a new cluster otherwise; a cluster is shown with the
\* normalized pattern of the first name put in it.  The clusters of two names
\* or more are the groups of the result, the others make Miscellaneous.
C20_FirstFit ==
    "clustered" \in computed =>
        LET cl == FirstFit(<<>>, extracted)
        IN  /\ {[pattern |-> identifyPattern(cl[k][1].name), files |-> cl[k]] :
                   k \in {k \in 1..Len(cl) : Len(cl[k]) >= 2}}
               = {[pattern |-> clustered[g].pattern, files |-> clustered[g].files] :
                   g \in {g \in 1..Len(clustered) : ~IsMisc(clustered[g])}}
            /\ {cl[k][1] : k \in {k \in 1..Len(cl) : Len(cl[k]) = 1}}
               = UNION {{clustered[g].files[j] : j \in 1..Len(clustered[g].files)} :
                           g \in {g \in 1..Len(clustered) : IsMisc(clustered[g])}}

\* 13-b.pdf has the prefix of the second cluster (13-b.txt) and the pattern of
\* the first (12-a.pdf): it is put in the first
C20_Witness ==
    /\ "clustered" \in computed
    /\ Len(extracted) = 3
    /\ extracted[1].name = Num12
    /\ extracted[2].name = Num13Txt
    /\ extracted[3].name = Num13
    /\ Len(clustered) = 2
    /\ clustered[1].files = <<extracted[1], extracted[3]>>
    /\ clustered[1].pattern = identifyPattern(Num12)
    /\ clustered[2].files = <<extracted[2]>>

\* the submitted files that reach the analysis: a supported extension, a
\* parse that succeeds and a text that is not blank
Analysable(file) ==
    /\ fileExt(file) \in SUPPORTED_EXTENSIONS
    /\ file.parse = "ok"
    /\ trim(file.text) # <<>>

\* the names of the analysable files among fs, in the order of fs
AnalysedNames(fs) ==
    LET good == SelectSeq(fs, Analysable)
    IN  [i \in 1..Len(good) |-> good[i].name]

\* C14: in a request to the batch endpoint mergeAnalysisResults is called at
\* most once, and only when every submitted file has been processed; what it
\* is given is the successful results in the order the files were submitted,
\* and combinedAnalysis.sourceFiles is the names of the successfully analysed
\* files in that order.
C14_MergeOnceInOrder ==
    endpoint = "analyze-batch" =>
        /\ mergeCalls <= 1
        /\ mergeCalls = 1 =>
              /\ phase = "responded"
              /\ pos = Len(files)
              /\ Len(fileResults) = Len(files)
        /\ [i \in 1..Len(successfulAnalyses) |-> successfulAnalyses[i].fileName]
              = AnalysedNames(SubSeq(files, 1, pos))
        /\ (phase = "responded" /\ response.status = 200) =>
              /\ combinedAnalysis.sourceFiles = AnalysedNames(files)
              /\ mergeCalls = 1 <=> AnalysedNames(files) # <<>>

\* C14 witness: a batch of three files is answered; the second file failed,
\* the merger was called once and sourceFiles holds the names of the first
\* and the third file, in this order.
C14_Witness ==
    /\ endpoint = "analyze-batch"
    /\ phase = "responded"
    /\ Len(files) = 3
    /\ ~Analysable(files[2])
    /\ files[1].name # files[3].name
    /\ mergeCalls = 1
    /\ combinedAnalysis.sourceFiles = <<files[1].name, files[3].name>>

\* the AI analysis of a file is asked for and gives nothing: isAIAvailable()
\* is false, or analyzeWithAI returns null or throws
AIGivesNothing(file) ==
    useAI /\ (~aiAvailable \/ file.ai \in {"null", "throws"})

\* C18: when the AI analysis is asked for and analyzeWithAI throws or returns
\* null, or the AI is not available, the request succeeds with the result of
\* analyzeDocument for the text, with aiEnhanced false, and the failure of
\* the AI is not an error of the request (nor, in a batch, of the file).
C18_RegexFallback ==
    /\ (/\ endpoint = "analyze"
        /\ phase = "responded"
        /\ files # <<>>
        /\ Analysable(files[1])
        /\ AIGivesNothing(files[1])) =>
              /\ response.status = 200
              /\ response.success
              /\ response.analysis = regexAnalysis(files[1].text)
              /\ response.analysis.aiEnhanced = FALSE
    /\ endpoint = "analyze-batch" =>
          /\ \A i \in 1..pos :
                (Analysable(files[i]) /\ AIGivesNothing(files[i])) =>
                    /\ fileResults[i].success
                    /\ fileResults[i].analysis = files[i].regex
                    /\ fileResults[i].analysis.aiEnhanced = FALSE
          /\ (phase = "responded" /\ files # <<>>) => response.status = 200

\* C18 witness: an analyze request with useAI and the AI available, for a
\* file on which analyzeWithAI throws, is answered with status 200 and an
\* analysis that has file names in it.
C18_Witness ==
    /\ endpoint = "analyze"
    /\ phase = "responded"
    /\ useAI
    /\ aiAvailable
    /\ files # <<>>
    /\ files[1].ai = "throws"
    /\ response.status = 200
    /\ response.analysis.totalFound > 0
    /\ response.analysis.aiEnhanced = FALSE

\* C19: of the requests of one client that ask for the AI analysis with the
\* form field useAI, at most 5 are admitted within one window of one minute;
\* the sixth one in the window is answered 429.
C19_FiveAIPerMinute ==
    \A c \in Clients : admittedAI[c] <= 5

\* the place of the file f in the list fs
PlaceIn(fs, f) == CHOOSE i \in 1..Len(fs) : fs[i] = f

RECURSIVE RunByRun(_, _)
RunByRun(s, i) ==
    IF i > Len(s) THEN <<>>
    ELSE LET n == digitRun(s, i)
         IN  IF n = 0 THEN <<s[i]>> \o RunByRun(s, i + 1)
             ELSE (IF n = 4 /\ Slice(s, i, i + 1) \in {<<"1","9">>, <<"2","0">>} THEN YYYY
                   ELSE IF n >= 3 THEN XXX
                   ELSE IF n = 2 THEN XX
                   ELSE X) \o RunByRun(s, i + n)

\* the pattern of fileName when the digits left by the two date
\* replacements are replaced run by run, the two last replacements (marker
\* letters, VAR) and the extension being those of identifyPattern
PatternRunByRun(fileName) ==
    LET parts == split(fileName, ".")
        dated == replaceFrom(2, replaceFrom(1, baseNameOf(fileName), 1), 1)
    IN  applyRules(7, RunByRun(dated, 1)) \o <<".">> \o parts[Len(parts)]

\* C22: in identifyPattern, once the dates are DATE, a run of digits becomes
\* YYYY only if it is a run of exactly four digits starting with 19 or 20,
\* any other run of three or more digits becomes one XXX, a run of two
\* digits XX and a single digit X; the extension after the last '.' is
\* copied as it is.
C22_DigitRuns ==
    patternFound # <<>> => patternFound = PatternRunByRun(nameGiven)

\* the key of the last call of checkRateLimit
LastKey == rateKey(lastCall.clientId, RATE_LIMITS[lastCall.name])

\* C23: of the calls of checkRateLimit with one configuration made while one
\* window record is live, at most config.maxRequests are allowed; the calls
\* that come after them in the window are not allowed and have remaining 0;
\* remaining is never negative and, when the call is allowed, it is
\* maxRequests less the calls that the record has counted.
C23_WindowQuota ==
    /\ \A k \in DOMAIN windowCalls, n \in ConfigNames :
          windowCalls[k].allowed[n] <= RATE_LIMITS[n].maxRequests
    /\ lastCall.made =>
          LET config == RATE_LIMITS[lastCall.name]
          IN  /\ lastCall.remaining >= 0
              /\ lastCall.before.allowed[lastCall.name] >= config.maxRequests =>
                    ~lastCall.allowed
              /\ lastCall.name \in lastCall.before.rejected => ~lastCall.allowed
              /\ ~lastCall.allowed => lastCall.remaining = 0
              /\ lastCall.allowed =>
                    /\ lastCall.remaining = config.maxRequests - (lastCall.before.made + 1)
                    /\ rateLimitStore[LastKey].count = lastCall.before.made + 1

\* C23 witness: the sixth call with RATE_LIMITS.AI in a window in which the
\* five calls before it were allowed is not allowed.
C23_Witness ==
    /\ lastCall.made
    /\ lastCall.name = "AI"
    /\ lastCall.before.made = 5
    /\ lastCall.before.allowed["AI"] = 5
    /\ ~lastCall.allowed
    /\ lastCall.remaining = 0

\* C24: the first call of checkRateLimit after the resetTime of the window
\* has passed is allowed and leaves a record with count 1, whatever was
\* rejected before; the resetTime of a record is the one it was created
\* with, however many calls are made or rejected in its window.
C24_AdmittedAgain ==
    /\ (lastCall.made /\ lastCall.expired) =>
          /\ lastCall.allowed
          /\ rateLimitStore[LastKey].count = 1
          /\ rateLimitStore[LastKey].resetTime
                = lastCall.at + RATE_LIMITS[lastCall.name].windowMs
    /\ \A k \in DOMAIN rateLimitStore :
          rateLimitStore[k].resetTime = windowCalls[k].createdAt + k[2]

\* C24 witness: a client whose sixth call with RATE_LIMITS.AI was rejected
\* calls again when the resetTime has passed, and is allowed.
C24_Witness ==
    /\ lastCall.made
    /\ lastCall.name = "AI"
    /\ lastCall.expired
    /\ "AI" \in lastCall.previous.rejected
    /\ lastCall.previous.allowed["AI"] = 5
    /\ lastCall.allowed
    /\ rateLimitStore[LastKey].count = 1

\* C25: the categories of RATE_LIMITS are counted one by one for a client: a
\* call with one configuration is rejected only when the calls allowed with
\* this very configuration in the window have used its maxRequests, and the
\* calls made with another configuration take nothing of its remaining.
C25_Independent ==
    lastCall.made =>
        LET config == RATE_LIMITS[lastCall.name]
            own    == lastCall.before.allowed[lastCall.name]
        IN  /\ lastCall.allowed <=> own < config.maxRequests
            /\ lastCall.allowed => lastCall.remaining = config.maxRequests - (own + 1)

\* the message has 'Invalid PDF', 'password' or 'encrypted' in it
Final(message) ==
    \E w \in {InvalidPDF, Password, Encrypted} : includes(message, w)

\* C26: parsePDF ends with a ParseResult and does not reject: with an empty
\* buffer or one that does not start with '%PDF' it fails without calling
\* extractText; it calls extractText at most retries + 1 times; no call
\* follows an error whose message has 'Invalid PDF', 'password' or
\* 'encrypted' in it; success is true only if a call of extractText has
\* returned. Before it returns, a step of it is always possible, and the
\* turns of the loop are at most retries + 1.
C26_ParsePDF ==
    /\ pdfCall.extractions <= pdfCall.retries + 1
    /\ pdfCall.attempt <= pdfCall.retries + 1
    /\ pdfCall.buffer # "pdf" => pdfCall.extractions = 0
    /\ \A i \in 1..Len(pdfCall.thrown) :
          Final(pdfCall.thrown[i]) =>
              /\ i = Len(pdfCall.thrown)
              /\ pdfCall.extractions = i
              /\ pdfCall.state # "loop"
    /\ pdfCall.state # "returned" => ENABLED PdfNext
    /\ pdfCall.state = "returned" =>
          /\ pdfCall.result.success \in BOOLEAN
          /\ pdfCall.result.success =>
                /\ pdfCall.buffer = "pdf"
                /\ pdfCall.extractions = Len(pdfCall.thrown) + 1
          /\ ~pdfCall.result.success => pdfCall.extractions = Len(pdfCall.thrown)

\* C26 witness: with the default retries, three calls of extractText have
\* thrown and parsePDF has returned a failure.
C26_Witness ==
    /\ pdfCall.state = "returned"
    /\ pdfCall.retries = MAX_RETRIES
    /\ pdfCall.extractions = 3
    /\ Len(pdfCall.thrown) = 3
    /\ ~pdfCall.result.success

\* C26 witness: an error with 'password' in its message at the first call
\* ends the loop, two retries being left.
C26_NoRetry ==
    /\ pdfCall.state = "returned"
    /\ pdfCall.retries = MAX_RETRIES
    /\ pdfCall.extractions = 1
    /\ Len(pdfCall.thrown) = 1
    /\ includes(pdfCall.thrown[1], Password)

\* the entries of results that are successes, as the merger takes them
SuccessesOf(rs) ==
    LET good == SelectSeq(rs, LAMBDA r : r.success)
    IN  [i \in 1..Len(good) |-> [fileName |-> good[i].fileName,
                                 analysis |-> good[i].analysis]]

C28_AIUsedMeansEnhanced ==
    (/\ endpoint = "analyze"
     /\ phase = "responded"
     /\ response.status = 200) =>
          (response.aiUsed => response.analysis.aiEnhanced = TRUE)

\* C29: a regex result made after analyzeWithAI gave nothing is not served
\* from the cache to a later request with useAI: for the same document, a
\* later request with useAI made while the AI is available either returns an
\* AI-enhanced analysis or calls analyzeWithAI itself.
C29_NoCachedFallback ==
    (/\ lastRequest.made
     /\ lastRequest.fellBackBefore
     /\ lastRequest.useAI
     /\ lastRequest.available
     /\ lastRequest.response.status = 200) =>
          \/ lastRequest.response.analysis.aiEnhanced = TRUE
          \/ lastRequest.attempted

C15_NoTraversal ==
    argKind = "name" /\ returned =>
        /\ "/" \notin Range(sanitizedName)
        /\ "\\" \notin Range(sanitizedName)
        /\ ~includes2(sanitizedName, ".", ".")

\* C16: whatever the input, without a '.' or with more than the limit after
\* the last '.', the result of sanitizeFileName has at most 255 characters.
C16_LengthLimit ==
    argKind = "name" /\ returned => Len(sanitizedName) <= 255

\* C17: a path that sanitizeFilePath returns as valid has no '..' and no '~'
\* in it, does not start with '/' and has at most 10 segments between '/';
\* a path with '..' in it is not returned as valid.
C17_ValidPathSafe ==
    argKind = "path" /\ returned =>
        /\ pathResult.isValid =>
              /\ ~includes2(pathResult.sanitized, ".", ".")
              /\ "~" \notin Range(pathResult.sanitized)
              /\ (pathResult.sanitized # <<>> => pathResult.sanitized[1] # "/")
              /\ Len(split(pathResult.sanitized, "/")) <= 10
        /\ includes2(arg, ".", ".") => ~pathResult.isValid

====
